---- MODULE Spec2Model ----
(***************************************************************************)
(* A model of the colour engine of plasma: Color / LinearColor conversion, *)
(* Gradient, Palette (k-means), DitherPattern, ColorMapper, and of the     *)
(* AsyncRenderer that builds ColorMappers on a worker thread.              *)
(*                                                                         *)
(* Each component has one state variable (a record) and one specification  *)
(* (SpecGamma, SpecLerp, ...) whose Init draws the component's inputs from *)
(* bounded sets and whose actions are the steps of the component's code.   *)
(* A variable that a specification does not use stays at Idle.             *)
(***************************************************************************)
EXTENDS Integers, Sequences, FiniteSets, TLC

VARIABLES
    conv,   \* Color -> LinearColor -> Color round trip of one channel
    lrp,    \* one LinearColor::lerp call
    tile,   \* a DitherPattern scanned over one 8x8 tile
    dith,   \* DitherPattern::new: the 64-trial loop
    grad,   \* Gradient::new and Gradient::get_color
    pal,    \* Palette::new: subsampling, pinning, k-means loop
    pin,    \* Palette::new: the loop over the HashSet of outside indexes
    gene,   \* ControlPoint::from_gene and the gradient of the decoded points
    cm,     \* ColorMapper::new and the two color accessors
    ar,     \* AsyncRenderer, its worker thread and the two channels
    nidx,   \* one Palette::get_nearest_index call
    geno,   \* Genome::to_base64 and Genome::from_base64
    pix     \* optimize_pixels on one frame and the frame before it

vars == <<conv, lrp, tile, dith, grad, pal, pin, gene, cm, ar, nidx, geno, pix>>

Idle == [pc |-> "idle"]

(***************************************************************************)
(* Integer helpers.                                                        *)
(***************************************************************************)
Min(a, b) == IF a <= b THEN a ELSE b
Max(a, b) == IF a >= b THEN a ELSE b

\* u16::MAX (std)
U16_MAX == 2^16 - 1

\* u8::MAX (std)
U8_MAX == 2^8 - 1

(***************************************************************************)
(* Natural numbers of any size, as little-endian sequences of limbs below  *)
(* LimbBase with no leading zero limb (zero is the empty sequence).  They  *)
(* are used where the exact value of a float expression does not fit the   *)
(* model checker's integers.                                               *)
(***************************************************************************)
LimbBase == 2^12

RECURSIVE BigFromNat(_)
BigFromNat(n) ==
    IF n = 0 THEN <<>> ELSE <<n % LimbBase>> \o BigFromNat(n \div LimbBase)

RECURSIVE BigMulCarry(_, _, _, _)
BigMulCarry(x, k, i, carry) ==
    IF i > Len(x)
    THEN BigFromNat(carry)
    ELSE LET t == x[i] * k + carry
         IN  <<t % LimbBase>> \o BigMulCarry(x, k, i + 1, t \div LimbBase)

\* x * k for a big x and a small k (k < 2^16)
BigMulSmall(x, k) == IF k = 0 THEN <<>> ELSE BigMulCarry(x, k, 1, 0)

\* x * k^n
RECURSIVE BigMulPow(_, _, _)
BigMulPow(x, k, n) ==
    IF n = 0 THEN x ELSE BigMulPow(BigMulSmall(x, k), k, n - 1)

RECURSIVE BigLessFrom(_, _, _)
BigLessFrom(x, y, i) ==
    IF i = 0 THEN FALSE
    ELSE IF x[i] # y[i] THEN x[i] < y[i]
    ELSE BigLessFrom(x, y, i - 1)

\* x < y
BigLess(x, y) ==
    IF Len(x) # Len(y) THEN Len(x) < Len(y) ELSE BigLessFrom(x, y, Len(x))

\* x <= y
BigLeq(x, y) == ~BigLess(y, x)

(***************************************************************************)
(* color.rs: gamma encoding.  GAMMA = 2.2 = GAMMA_NUM / GAMMA_DEN.         *)
(*                                                                         *)
(* component_to_linear and component_to_gamma are modelled by the exact    *)
(* value of the float expression they evaluate (x.powf(2.2) is the real    *)
(* x^(11/5)), followed by the code's ceil() or floor().  The rounding of   *)
(* the individual f32 operations is not modelled here.                     *)
(***************************************************************************)
GAMMA_NUM == 11
GAMMA_DEN == 5

\* (L / lmax)^ld >= (c / cmax)^cn, as L^ld * cmax^cn >= c^cn * lmax^ld
PowGeq(L, lmax, ld, c, cmax, cn) ==
    BigLeq(BigMulPow(BigMulPow(<<1>>, c, cn), lmax, ld),
           BigMulPow(BigMulPow(<<1>>, L, ld), cmax, cn))

\* least L in lo..hi with (L / lmax)^ld >= (c / cmax)^cn (hi satisfies it)
RECURSIVE LeastPowGeq(_, _, _, _, _, _, _)
LeastPowGeq(lo, hi, lmax, ld, c, cmax, cn) ==
    IF lo = hi THEN lo
    ELSE LET mid == (lo + hi) \div 2
         IN  IF PowGeq(mid, lmax, ld, c, cmax, cn)
             THEN LeastPowGeq(lo, mid, lmax, ld, c, cmax, cn)
             ELSE LeastPowGeq(mid + 1, hi, lmax, ld, c, cmax, cn)

\* ceil(lmax * (c / cmax)^(num / den)) for 0 <= c <= cmax
CeilScaledPow(c, cmax, lmax, num, den) ==
    LeastPowGeq(0, lmax, lmax, den, c, cmax, num)

\* floor(lmax * (c / cmax)^(num / den)) for 0 <= c <= cmax
FloorScaledPow(c, cmax, lmax, num, den) ==
    LET up == CeilScaledPow(c, cmax, lmax, num, den)
    IN  IF PowGeq(c, cmax, num, up, lmax, den) THEN up ELSE up - 1

\* the mutant of component_to_linear: round() to the nearest u16
component_to_linear_round(c) ==
    LET up == CeilScaledPow(c, U8_MAX, U16_MAX, GAMMA_NUM, GAMMA_DEN)
    IN  IF up = 0 THEN 0
        ELSE IF PowGeq(2 * up - 1, 2 * U16_MAX, GAMMA_DEN, c, U8_MAX, GAMMA_NUM)
             THEN up - 1 ELSE up

\* LinearColor::component_to_linear: ((c/255)^2.2 * 65535).ceil() as u16
component_to_linear(c) ==
    CeilScaledPow(c, U8_MAX, U16_MAX, GAMMA_NUM, GAMMA_DEN)

\* LinearColor::component_to_gamma: ((c/65535)^(1/2.2) * 255).floor() as u8
component_to_gamma(c) ==
    FloorScaledPow(c, U16_MAX, U8_MAX, GAMMA_DEN, GAMMA_NUM)

\* Color channels the round trip is run on: every u8
Bytes == 0..U8_MAX

ConvInit == conv \in [pc : {"color"}, c : Bytes, linear : {0}, back : {0}]

\* Color::to_linear (LinearColor::from_gamma), one channel
ToLinear ==
    /\ conv.pc = "color"
    /\ conv' = [conv EXCEPT !.pc = "linear", !.linear = component_to_linear(conv.c)]
    /\ UNCHANGED <<lrp, tile, dith, grad, pal, pin, gene, cm, ar, nidx, geno, pix>>

\* LinearColor::to_gamma, one channel
ToGamma ==
    /\ conv.pc = "linear"
    /\ conv' = [conv EXCEPT !.pc = "gamma", !.back = component_to_gamma(conv.linear)]
    /\ UNCHANGED <<lrp, tile, dith, grad, pal, pin, gene, cm, ar, nidx, geno, pix>>

InitGamma ==
    /\ ConvInit
    /\ lrp = Idle /\ tile = Idle /\ dith = Idle /\ grad = Idle /\ pal = Idle
    /\ pin = Idle /\ gene = Idle /\ cm = Idle /\ ar = Idle
    /\ nidx = Idle /\ geno = Idle /\ pix = Idle

NextGamma == ToLinear \/ ToGamma

SpecGamma == InitGamma /\ [][NextGamma]_vars

F32Hidden == 2^23

RECURSIVE F32DivNorm(_, _, _, _)
F32DivNorm(q, r, d, e) ==
    IF q >= F32Hidden
    THEN \* round to nearest, ties to even, on the remainder r / d
         LET up == 2 * r > d \/ (2 * r = d /\ q % 2 = 1)
             m  == IF up THEN q + 1 ELSE q
         IN  IF m = 2 * F32Hidden THEN [m |-> F32Hidden, e |-> e + 1]
             ELSE [m |-> m, e |-> e]
    ELSE \* one more quotient bit; the sets bind the operands to their values
         CHOOSE f \in {F32DivNorm(q2, r2, d, e - 1) :
                          q2 \in {2 * q + (IF 2 * r >= d THEN 1 ELSE 0)},
                          r2 \in {IF 2 * r >= d THEN 2 * r - d ELSE 2 * r}} : TRUE

\* the f32 quotient n / d of two integers 0 <= n < 2^24, 0 < d < 2^24
F32Div(n, d) ==
    IF n = 0 THEN [m |-> 0, e |-> 0] ELSE F32DivNorm(n \div d, n % d, d, 0)

(***************************************************************************)
(* color.rs: LinearColor, a triple <<r, g, b>> of u16.                      *)
(***************************************************************************)
\* new_f32's closure to_component: (f*65536.0).floor().clamp(0.0, 65535.0) as u16
to_component(f) ==
    IF f.m <= 0 THEN 0
    ELSE IF f.e + 16 >= 0 THEN U16_MAX
    ELSE IF f.e + 16 <= -24 THEN 0
    ELSE Min(f.m \div 2^(-(f.e + 16)), U16_MAX)

\* LinearColor::new_f32
new_f32(r, g, b) == <<to_component(r), to_component(g), to_component(b)>>

\* FastMath::lerp at the two end positions 0.0 and 1.0 (t = 0 or 1), where
\* self*(1.0 - position) + other*position is exact for u16 operands
f32_lerp_end(x, y, t) == x * (1 - t) + y * t

\* LinearColor::lerp at position 0.0 or 1.0
LinearColor_lerp_end(a, b, t) ==
    new_f32(F32Div(f32_lerp_end(a[1], b[1], t), U16_MAX),
            F32Div(f32_lerp_end(a[2], b[2], t), U16_MAX),
            F32Div(f32_lerp_end(a[3], b[3], t), U16_MAX))

BLACK == <<0, 0, 0>>
WHITE == <<U16_MAX, U16_MAX, U16_MAX>>

\* Channel values within LerpEdge of either end of the u16 range, and the middle
LerpEdge == 160
LerpChannels ==
    (0..LerpEdge) \cup ((U16_MAX - LerpEdge)..U16_MAX) \cup {2^15 - 1, 2^15}

LerpColors == {<<c, U16_MAX - c, c \div 2>> : c \in LerpChannels}

LerpInit ==
    lrp \in [pc : {"call"}, a : LerpColors, b : {BLACK, WHITE, <<2^15, 1, U16_MAX - 1>>},
             t : {0, 1}, out : {BLACK}]

\* a.lerp(b, 0.0) or a.lerp(b, 1.0)
Lerp ==
    /\ lrp.pc = "call"
    /\ lrp' = [lrp EXCEPT !.pc = "done", !.out = LinearColor_lerp_end(lrp.a, lrp.b, lrp.t)]
    /\ UNCHANGED <<conv, tile, dith, grad, pal, pin, gene, cm, ar, nidx, geno, pix>>

\* the other operand takes the place of self: b.lerp(a, t)
LerpSwap ==
    /\ lrp.pc = "call"
    /\ lrp' = [lrp EXCEPT !.a = lrp.b, !.b = lrp.a, !.pc = "done",
                          !.out = LinearColor_lerp_end(lrp.b, lrp.a, lrp.t)]
    /\ UNCHANGED <<conv, tile, dith, grad, pal, pin, gene, cm, ar, nidx, geno, pix>>

InitLerp ==
    /\ LerpInit
    /\ conv = Idle /\ tile = Idle /\ dith = Idle /\ grad = Idle /\ pal = Idle
    /\ pin = Idle /\ gene = Idle /\ cm = Idle /\ ar = Idle
    /\ nidx = Idle /\ geno = Idle /\ pix = Idle

NextLerp == Lerp \/ LerpSwap

SpecLerp == InitLerp /\ [][NextLerp]_vars

\* C5: a.lerp(b, 0.0) = a and a.lerp(b, 1.0) = b exactly, for all a and b.
C5_LerpBoundaries ==
    lrp.pc = "done" => lrp.out = (IF lrp.t = 0 THEN lrp.a ELSE lrp.b)

\* What the code does at the boundaries instead: a channel from 65408 to 65534
\* comes back one higher, every other channel comes back exactly.
LerpEndsOffByOneNearTop ==
    lrp.pc = "done" =>
        \A i \in 1..3 :
            LET want == IF lrp.t = 0 THEN lrp.a[i] ELSE lrp.b[i]
            IN  IF want < U16_MAX - 127 \/ want = U16_MAX
                THEN lrp.out[i] = want ELSE lrp.out[i] = want + 1

(***************************************************************************)
(* palette.rs: squared distance and nearest palette entry.  The distance   *)
(* is a u64 in the code; here it is a pair <<hi, lo>> for hi * 2^16 + lo   *)
(* with lo < 2^16, which holds every sum of three squares of u16           *)
(* differences exactly.                                                    *)
(***************************************************************************)
\* x + y on the pairs
U64Add(x, y) == <<x[1] + y[1] + ((x[2] + y[2]) \div 2^16), (x[2] + y[2]) % 2^16>>

\* x < y on the pairs
U64Less(x, y) == x[1] < y[1] \/ (x[1] = y[1] /\ x[2] < y[2])

\* the mutant of partial: the difference taken in u16, not widened to i64
partial_u16(x, y) ==
    LET delta == (x - y) % 2^16
        dh    == delta \div 2^8
        dl    == delta % 2^8
        low   == 2 * dh * dl * 2^8 + dl * dl
    IN  <<dh * dh + (low \div 2^16), low % 2^16>>

\* squared_distance's helper partial(x, y): delta*delta for delta = x - y in i64
partial(x, y) ==
    LET delta == IF x >= y THEN x - y ELSE y - x
        dh    == delta \div 2^8
        dl    == delta % 2^8
        low   == 2 * dh * dl * 2^8 + dl * dl
    IN  <<dh * dh + (low \div 2^16), low % 2^16>>

\* LinearColor::squared_distance (also colormapper.rs sq_dist)
squared_distance(c, other) ==
    CHOOSE sum \in {U64Add(U64Add(pr, pg), pb) :
                      pr \in {partial(c[1], other[1])},
                      pg \in {partial(c[2], other[2])},
                      pb \in {partial(c[3], other[3])}} : TRUE

\* the scan of min_by_key from entry j on: best is the first minimum so far
\* and key its squared distance
RECURSIVE min_by_key_from(_, _, _, _, _)
min_by_key_from(colors, color, j, best, key) ==
    IF j > Len(colors) THEN best
    ELSE CHOOSE index \in
             {IF U64Less(d, key) THEN min_by_key_from(colors, color, j + 1, j, d)
              ELSE min_by_key_from(colors, color, j + 1, best, key) :
                  d \in {squared_distance(color, colors[j])}} : TRUE

\* Palette::get_nearest_index: min_by_key returns the first of several minima.
\* The palette is a non-empty sequence of colors; indexes are 0-based.
get_nearest_index(colors, color) ==
    min_by_key_from(colors, color, 2, 1, squared_distance(color, colors[1])) - 1

(***************************************************************************)
(* dither.rs: BAYER_MATRIX and DitherPattern::get_palette_index.            *)
(* A DitherPattern is [palette_indexes, palette_proportions], two          *)
(* sequences of four; slot i of the code is element i + 1.                 *)
(***************************************************************************)
\* the mutant of BAYER_MATRIX: 62 twice, 63 missing
BAYER_MATRIX_dup ==
    << << 0, 48, 12, 60,  3, 51, 15, 62>>,
       <<32, 16, 44, 28, 35, 19, 47, 31>>,
       << 8, 56,  4, 52, 11, 59,  7, 55>>,
       <<40, 24, 36, 20, 43, 27, 39, 23>>,
       << 2, 50, 14, 62,  1, 49, 13, 61>>,
       <<34, 18, 46, 30, 33, 17, 45, 29>>,
       <<10, 58,  6, 54,  9, 57,  5, 53>>,
       <<42, 26, 38, 22, 41, 25, 37, 21>> >>

BAYER_MATRIX ==
    << << 0, 48, 12, 60,  3, 51, 15, 63>>,
       <<32, 16, 44, 28, 35, 19, 47, 31>>,
       << 8, 56,  4, 52, 11, 59,  7, 55>>,
       <<40, 24, 36, 20, 43, 27, 39, 23>>,
       << 2, 50, 14, 62,  1, 49, 13, 61>>,
       <<34, 18, 46, 30, 33, 17, 45, 29>>,
       <<10, 58,  6, 54,  9, 57,  5, 53>>,
       <<42, 26, 38, 22, 41, 25, 37, 21>> >>

\* the while loop of get_palette_index; the result is dither_index, and 4
\* when the loop reads palette_proportions[4] (index out of bounds, a panic)
RECURSIVE dither_index_loop(_, _, _, _)
dither_index_loop(proportions, bayer_value, dither_index, cumulative_proportion) ==
    IF cumulative_proportion <= bayer_value
    THEN IF dither_index + 1 > 3 THEN 4
         ELSE dither_index_loop(proportions, bayer_value, dither_index + 1,
                  (cumulative_proportion + proportions[dither_index + 2]) % 2^8)
    ELSE dither_index

\* the slot get_palette_index ends on (4: panic)
get_dither_index(dp, x, y) ==
    dither_index_loop(dp.palette_proportions, BAYER_MATRIX[(y % 8) + 1][(x % 8) + 1],
                      0, dp.palette_proportions[1])

\* DitherPattern::get_palette_index; -1 stands for the panic
get_palette_index(dp, x, y) ==
    LET slot == get_dither_index(dp, x, y)
    IN  IF slot > 3 THEN -1 ELSE dp.palette_indexes[slot + 1]

(***************************************************************************)
(* One 8x8 tile of pixels run through get_palette_index, as the test       *)
(* test_dither_pattern_get_palette_index counts it.                        *)
(***************************************************************************)
\* Proportions are drawn around the multiples of 64 / TileParts
TileParts == 4
\* Tiles start at 0 or at MaxTileOrigin, in x and in y
MaxTileOrigin == 5

TileProportionValues ==
    LET step == 64 \div TileParts
    IN  {v \in 0..64 : \E k \in 0..TileParts : v \in {k * step - 1, k * step, k * step + 1}}

TileProportions ==
    {<<a, b, c, 64 - a - b - c>> : <<a, b, c>> \in
        {t \in TileProportionValues \X TileProportionValues \X TileProportionValues :
            /\ t[1] + t[2] + t[3] <= 64
            /\ (64 - t[1] - t[2] - t[3]) \in TileProportionValues}}

\* slots holding distinct palette indexes
TileIndexes == {<<0, 1, 2, 3>>, <<7, 2, 5, 300>>}

TileInit ==
    tile \in [pc : {"scan"}, x0 : {0, MaxTileOrigin}, y0 : {0, MaxTileOrigin},
              dp : [palette_indexes : TileIndexes, palette_proportions : TileProportions],
              cell : {0}, counts : {<<0, 0, 0, 0>>}, panic : {FALSE}]

\* one pixel of the tile: counts[slot of d.get_palette_index(x, y)] += 1
ScanCell ==
    /\ tile.pc = "scan"
    /\ tile.cell < 64
    /\ LET x == tile.x0 + (tile.cell \div 8)
           y == tile.y0 + (tile.cell % 8)
           p == get_palette_index(tile.dp, x, y)
       IN  IF p = -1
           THEN tile' = [tile EXCEPT !.pc = "panic", !.panic = TRUE]
           ELSE LET slot == CHOOSE i \in 1..4 : tile.dp.palette_indexes[i] = p
                IN  tile' = [tile EXCEPT !.cell = @ + 1,
                                         !.counts[slot] = @ + 1,
                                         !.pc = IF tile.cell = 63 THEN "done" ELSE "scan"]
    /\ UNCHANGED <<conv, lrp, dith, grad, pal, pin, gene, cm, ar, nidx, geno, pix>>

InitTile ==
    /\ TileInit
    /\ conv = Idle /\ lrp = Idle /\ dith = Idle /\ grad = Idle /\ pal = Idle
    /\ pin = Idle /\ gene = Idle /\ cm = Idle /\ ar = Idle
    /\ nidx = Idle /\ geno = Idle /\ pix = Idle

NextTile == ScanCell

SpecTile == InitTile /\ [][NextTile]_vars

\* C3: over any 8x8 tile, get_palette_index returns slot i's palette index for
\* exactly palette_proportions[i] of the 64 cells, and never reads past slot 3.
C3_TileProportions ==
    /\ tile.pc # "panic"
    /\ tile.pc = "done" => tile.counts = tile.dp.palette_proportions

\* C3 witness: a whole tile not at the origin has been scanned with a pattern
\* whose first and third slots are unused
C3_Witness ==
    /\ tile.pc = "done"
    /\ tile.x0 = MaxTileOrigin /\ tile.y0 = MaxTileOrigin
    /\ tile.dp.palette_proportions[1] = 0
    /\ tile.dp.palette_proportions[3] = 0
    /\ tile.dp.palette_proportions[4] > 0
    /\ tile.counts[4] > 0

(***************************************************************************)
(* dither.rs: DitherPattern::new, one action per trial of its loop and one *)
(* for the assembly of the pattern.  (colormapper.rs get_dither_info is    *)
(* the same code over a slice.)                                            *)
(***************************************************************************)
max_colors == 4
max_new_color_iters == 16
\* the trials of the loop `for i in 0..64`
NumTrials == 64

\* the mutant of sub_error: the accumulated error is not subtracted
sub_error_none(component, error) == component

\* the closure sub_error: min(max(0, component as i32 - error), u16::MAX) as u16
sub_error(component, error) == Min(Max(0, component - error), U16_MAX)

\* position of palette index p in palette_indexes (1-based), 0 for None
position_of(palette_indexes, p) ==
    IF \E k \in 1..Len(palette_indexes) : palette_indexes[k] = p
    THEN CHOOSE k \in 1..Len(palette_indexes) :
            /\ palette_indexes[k] = p
            /\ \A l \in 1..(k - 1) : palette_indexes[l] # p
    ELSE 0

\* the mutant of allow_new_colors: the subpalette's size is not looked at
allow_new_colors_any_size(i, subpalette) == i < max_new_color_iters

\* the mutant of allow_new_colors: the number of the trial is not looked at
allow_new_colors_any_trial(i, subpalette) == Len(subpalette) < max_colors

\* allow_new_colors of one trial
allow_new_colors(i, subpalette) ==
    i < max_new_color_iters /\ Len(subpalette) < max_colors

\* the mutant of sort_pairs: the pairs in descending order
RECURSIVE sort_pairs_desc(_)
sort_pairs_desc(pairs) ==
    IF pairs = {} THEN <<>>
    ELSE LET most == CHOOSE p \in pairs :
                        \A q \in pairs :
                            p[1] > q[1] \/ (p[1] = q[1] /\ p[2] >= q[2])
         IN  <<most>> \o sort_pairs_desc(pairs \ {most})

\* (index, count) pairs in ascending order: indexes_counts.sort()
RECURSIVE sort_pairs(_)
sort_pairs(pairs) ==
    IF pairs = {} THEN <<>>
    ELSE LET least == CHOOSE p \in pairs :
                         \A q \in pairs :
                             p[1] < q[1] \/ (p[1] = q[1] /\ p[2] <= q[2])
         IN  <<least>> \o sort_pairs(pairs \ {least})

\* Target colors and palettes of the dither runs: every sequence of 2 or 3
\* colors over the first four of DitherColorList, and the first n colors of
\* the list for n up to MaxDitherPalette.
MaxDitherPalette == 5
DitherColorList ==
    <<BLACK, WHITE, <<U16_MAX, 0, 0>>, <<0, U16_MAX, 0>>, <<0, 0, U16_MAX>>,
      <<U16_MAX, U16_MAX, 0>>, <<2^15, 2^15, 2^15>>, <<0, U16_MAX, U16_MAX>>>>
DitherColors == {DitherColorList[k] : k \in 1..4}
DitherTargets ==
    {<<2^15, 2^15, 2^15>>, <<2^14, 2^13, 2^12>>, <<U16_MAX, 1, 0>>,
     <<40000, 30000, 20000>>, <<30000, 20000, 25000>>}
DitherPalettes ==
    UNION {[1..n -> DitherColors] : n \in 2..3}
    \cup {SubSeq(DitherColorList, 1, n) : n \in 4..Min(MaxDitherPalette, Len(DitherColorList))}

DitherInit ==
    dith \in [pc : {"trials"}, color : DitherTargets, palette : DitherPalettes,
              i : {0}, subpalette : {<<>>}, palette_indexes : {<<>>}, counts : {<<>>},
              errors : {<<0, 0, 0>>}, grew : {FALSE},
              retval : {[palette_indexes |-> <<0, 0, 0, 0>>,
                         palette_proportions |-> <<0, 0, 0, 0>>]}]

\* one iteration of `for i in 0..64`
Trial ==
    /\ dith.pc = "trials"
    /\ dith.i < NumTrials
    /\ LET color   == dith.color
           palette == dith.palette
           target  == <<sub_error(color[1], dith.errors[1]),
                        sub_error(color[2], dith.errors[2]),
                        sub_error(color[3], dith.errors[3])>>
           allow   == allow_new_colors(dith.i, dith.subpalette)
           nearest_palette_index ==
               IF allow THEN get_nearest_index(palette, target)
               ELSE dith.palette_indexes[get_nearest_index(dith.subpalette, target) + 1]
           nearest_subpalette_index ==
               IF allow THEN position_of(dith.palette_indexes, nearest_palette_index)
               ELSE get_nearest_index(dith.subpalette, target) + 1
           last_color == palette[nearest_palette_index + 1]
       IN  dith' = [dith EXCEPT
               !.i = @ + 1,
               !.subpalette = IF nearest_subpalette_index # 0 THEN @
                              ELSE Append(@, last_color),
               !.palette_indexes = IF nearest_subpalette_index # 0 THEN @
                                   ELSE Append(@, nearest_palette_index),
               !.counts = IF nearest_subpalette_index # 0
                          THEN [@ EXCEPT ![nearest_subpalette_index] = @ + 1]
                          ELSE Append(@, 1),
               !.grew = (nearest_subpalette_index = 0),
               !.errors = <<@[1] + last_color[1] - color[1],
                            @[2] + last_color[2] - color[2],
                            @[3] + last_color[3] - color[3]>>]
    /\ UNCHANGED <<conv, lrp, tile, grad, pal, pin, gene, cm, ar, nidx, geno, pix>>

\* the code after the loop: sort (palette_index, count) and fill the 4 slots;
\* more than 4 pairs write retval.palette_indexes[4], a panic
Assemble ==
    /\ dith.pc = "trials"
    /\ dith.i = NumTrials
    /\ LET n == Len(dith.palette_indexes)
           indexes_counts ==
               sort_pairs({<<dith.palette_indexes[k], dith.counts[k]>> : k \in 1..n})
       IN  IF n > 4
           THEN dith' = [dith EXCEPT !.pc = "panic"]
           ELSE dith' = [dith EXCEPT
                   !.pc = "done",
                   !.retval = [palette_indexes |->
                                  [k \in 1..4 |-> IF k <= n
                                                  THEN indexes_counts[k][1] % 2^16 ELSE 0],
                               palette_proportions |->
                                  [k \in 1..4 |-> IF k <= n
                                                  THEN indexes_counts[k][2] % 2^8 ELSE 0]]]
    /\ UNCHANGED <<conv, lrp, tile, grad, pal, pin, gene, cm, ar, nidx, geno, pix>>

InitDither ==
    /\ DitherInit
    /\ conv = Idle /\ lrp = Idle /\ tile = Idle /\ grad = Idle /\ pal = Idle
    /\ pin = Idle /\ gene = Idle /\ cm = Idle /\ ar = Idle
    /\ nidx = Idle /\ geno = Idle /\ pix = Idle

NextDither == Trial \/ Assemble

SpecDither == InitDither /\ [][NextDither]_vars

\* C2: the four palette_proportions of the pattern DitherPattern::new returns
\* sum to exactly 64, each trial having incremented exactly one usage count.
C2_ProportionsSum ==
    /\ dith.pc # "panic"
    /\ dith.pc = "trials" =>
           LET n == Len(dith.counts)
           IN  dith.i = (IF n >= 1 THEN dith.counts[1] ELSE 0)
                        + (IF n >= 2 THEN dith.counts[2] ELSE 0)
                        + (IF n >= 3 THEN dith.counts[3] ELSE 0)
                        + (IF n >= 4 THEN dith.counts[4] ELSE 0)
                        + (IF n >= 5 THEN dith.counts[5] ELSE 0)
    /\ dith.pc = "done" =>
           dith.retval.palette_proportions[1] + dith.retval.palette_proportions[2]
           + dith.retval.palette_proportions[3] + dith.retval.palette_proportions[4] = 64

\* C2 witness: a finished pattern that mixes four palette colors
C2_Witness ==
    /\ dith.pc = "done"
    /\ \A k \in 1..4 : dith.retval.palette_proportions[k] > 0

\* C15: the pattern DitherPattern::new returns uses k slots, 1 <= k <= 4, at
\* slot positions 0..k-1, each with proportion >= 1 and with palette indexes
\* in strictly ascending order (so pairwise distinct); the slots k..3 hold
\* palette index 0 and proportion 0.
C15_PatternSlots ==
    dith.pc = "done" =>
        \E k \in 1..4 :
            /\ \A s \in 1..k : dith.retval.palette_proportions[s] >= 1
            /\ \A s \in 1..(k - 1) :
                   dith.retval.palette_indexes[s] < dith.retval.palette_indexes[s + 1]
            /\ \A s \in (k + 1)..4 :
                   /\ dith.retval.palette_indexes[s] = 0
                   /\ dith.retval.palette_proportions[s] = 0

\* C15 witness: a finished pattern of three used slots and one unused, whose
\* colors were found in another order than the ascending one
C15_Witness ==
    /\ dith.pc = "done"
    /\ dith.retval.palette_proportions[3] >= 1
    /\ dith.retval.palette_proportions[4] = 0
    /\ dith.palette_indexes[1] > dith.palette_indexes[2]

\* C17: for the palette [black, white] and the target (32768, 32768, 32768)
\* the 64 trials alternate between the two colors (white first), and the
\* pattern is palette_indexes [0,1,0,0], palette_proportions [32,32,0,0].
C17_BlackWhiteHalf ==
    (dith.color = <<2^15, 2^15, 2^15>> /\ dith.palette = <<BLACK, WHITE>>) =>
        /\ (dith.pc = "trials" /\ dith.i >= 2) =>
               /\ dith.palette_indexes = <<1, 0>>
               /\ dith.counts = <<(dith.i + 1) \div 2, dith.i \div 2>>
        /\ dith.pc = "done" =>
               dith.retval = [palette_indexes |-> <<0, 1, 0, 0>>,
                              palette_proportions |-> <<32, 32, 0, 0>>]

\* C17 witness: the finished pattern of that palette and target
C17_Witness ==
    /\ dith.pc = "done"
    /\ dith.color = <<2^15, 2^15, 2^15>> /\ dith.palette = <<BLACK, WHITE>>
    /\ dith.counts = <<32, 32>>

\* C26: a trial of DitherPattern::new adds a palette index to the subpalette
\* only if it is one of the first 16 trials and the subpalette holds fewer than
\* 4 entries; every other trial chooses a color of the subpalette, which so
\* never exceeds 4 entries and never grows after trial 15.
C26_SubpaletteGrowth ==
    [][/\ Len(dith'.subpalette) > Len(dith.subpalette) =>
              /\ dith.i < max_new_color_iters
              /\ Len(dith.subpalette) < max_colors
              /\ Len(dith'.subpalette) = Len(dith.subpalette) + 1
       /\ (dith.pc = "trials" /\ dith'.pc = "trials"
           /\ (dith.i >= max_new_color_iters \/ Len(dith.subpalette) >= max_colors)) =>
              /\ dith'.subpalette = dith.subpalette
              /\ dith'.palette_indexes = dith.palette_indexes
              /\ \E k \in 1..Len(dith.counts) :
                     dith'.counts = [dith.counts EXCEPT ![k] = @ + 1]
       /\ Len(dith'.subpalette) <= max_colors]_vars

\* a subpalette that reached 4 entries before trial 15, and trials run on it
\* after trial 15
C26_Witness ==
    /\ dith.pc = "trials"
    /\ dith.i > max_new_color_iters
    /\ Len(dith.subpalette) = max_colors
    /\ ~dith.grew

(***************************************************************************)
(* gradient.rs.  A position is an integer number of 1/PositionUnits: the   *)
(* positions the program builds are byte/256.0 (ControlPoint::from_gene)   *)
(* and 0.0, and on them wrap(), the differences and the comparisons of the *)
(* code are exact in f32.  A ControlPoint is [color, position].            *)
(***************************************************************************)
PositionUnits == 256

\* FastMath::wrap: self - self.floor()
wrap(x) == x % PositionUnits

\* LinearColor::lerp at position tn/td, 0 <= tn <= td, td > 0.  At the two ends
\* the f32 arithmetic of the code is followed exactly; strictly inside, the
\* result is floor of the exact interpolated value times 65536/65535, the f32
\* rounding of the interpolation itself being left out.
LinearColor_lerp(a, b, tn, td) ==
    IF tn = 0 THEN LinearColor_lerp_end(a, b, 0)
    ELSE IF tn = td THEN LinearColor_lerp_end(a, b, 1)
    ELSE [i \in 1..3 |->
            LET n == a[i] * (td - tn) + b[i] * tn
                q == n \div td
                r == n % td
            IN  Min(q + ((U16_MAX * r + n) \div (U16_MAX * td)), U16_MAX)]

\* the mutant of Subgradient_contains: the end point2 is left out of a
\* pair that crosses 0
Subgradient_contains_open(point1, point2, position) ==
    LET adj_position == wrap(position)
    IN  IF point1.position <= point2.position
        THEN point1.position <= adj_position /\ adj_position <= point2.position
        ELSE adj_position < point2.position \/ point1.position <= adj_position

\* Subgradient::contains
Subgradient_contains(point1, point2, position) ==
    LET adj_position == wrap(position)
    IN  IF point1.position <= point2.position
        THEN point1.position <= adj_position /\ adj_position <= point2.position
        ELSE adj_position <= point2.position \/ point1.position <= adj_position

\* the result of a call that panicked, and of one that returned a color
Panicked == [panic |-> TRUE]
Returned(c) == [panic |-> FALSE, color |-> c]

\* ControlPoint::lerp; it panics when assert!(distance > 0.0) fails
ControlPoint_lerp(point1, point2, position) ==
    LET distance == wrap(point2.position - point1.position)
    IN  IF ~(distance > 0) THEN Panicked
        ELSE Returned(LinearColor_lerp(point1.color, point2.color,
                                       wrap(position - point1.position), distance))

\* Subgradient::get_color; it panics when assert!(self.contains(position)) fails
Subgradient_get_color(point1, point2, position) ==
    IF ~Subgradient_contains(point1, point2, position) THEN Panicked
    ELSE ControlPoint_lerp(point1, point2, position)

\* ControlPoint::new(r, g, b, position)
ControlPoint_new(r, g, b, position) ==
    [color |-> <<component_to_linear(r), component_to_linear(g), component_to_linear(b)>>,
     position |-> wrap(position)]

\* points.sort_by(position): a stable sort, equal positions keep their order
RECURSIVE sort_by_position(_)
sort_by_position(points) ==
    IF Len(points) <= 1 THEN points
    ELSE LET front == sort_by_position(SubSeq(points, 1, Len(points) - 1))
             last  == points[Len(points)]
             k     == Cardinality({i \in 1..Len(front) : front[i].position <= last.position})
         IN  SubSeq(front, 1, k) \o <<last>> \o SubSeq(front, k + 1, Len(front))

\* Gradient::new
Gradient_new(control_points) ==
    LET p0 == IF Len(control_points) = 0
              THEN <<ControlPoint_new(128, 128, 128, 0)>>
              ELSE control_points
        p1 == IF Len(p0) = 1
              THEN Append(p0, [p0[1] EXCEPT !.position =
                                   wrap(p0[1].position + (PositionUnits \div 2))])
              ELSE p0
    IN  sort_by_position(p1)

\* Control points of the gradients: up to MaxControlPoints of them, at the
\* multiples of 1/GradientSlots and at the last position before the wrap
MaxControlPoints == 3
GradientSlots == 2
GradientPositions ==
    {k * (PositionUnits \div GradientSlots) : k \in 0..(GradientSlots - 1)}
    \cup {PositionUnits - 1}
GradientColors == {<<60, 0, U16_MAX>>, <<0, 60, 2^15>>, <<U16_MAX - 1, 0, 60>>}
ControlPoints == [color : GradientColors, position : GradientPositions]
\* positions get_color is asked for: the control points' and one between each
QueryPositions ==
    GradientPositions \cup {p + 32 : p \in GradientPositions} \cup {PositionUnits}

GradInit ==
    grad \in [pc : {"new"},
              control_points : UNION {[1..n -> ControlPoints] : n \in 0..MaxControlPoints},
              points : {<<>>}, position : {0}, index1 : {0}, color : {BLACK}]

\* Gradient::new(control_points)
GradientNew ==
    /\ grad.pc = "new"
    /\ grad' = [grad EXCEPT !.pc = "ready", !.points = Gradient_new(grad.control_points)]
    /\ UNCHANGED <<conv, lrp, tile, dith, pal, pin, gene, cm, ar, nidx, geno, pix>>

\* Gradient::get_color(position), up to the creation of the iterator
GetColor ==
    /\ grad.pc \in {"ready", "done"}
    /\ \E position \in QueryPositions :
           grad' = [grad EXCEPT !.pc = "find", !.position = position,
                                !.index1 = Len(grad.points) - 1, !.color = BLACK]
    /\ UNCHANGED <<conv, lrp, tile, dith, pal, pin, gene, cm, ar, nidx, geno, pix>>

\* one step of find(): GradientIterator::next and the test of the pair it
\* yields; on the first pair that contains pos, subgradient.get_color(pos)
IterNext ==
    /\ grad.pc = "find"
    /\ LET pos    == wrap(grad.position)
           index1 == grad.index1
           index2 == (grad.index1 + 1) % Len(grad.points)
           point1 == grad.points[index1 + 1]
           point2 == grad.points[index2 + 1]
       IN  IF Subgradient_contains(point1, point2, pos)
           THEN LET got == Subgradient_get_color(point1, point2, pos)
                IN  IF got.panic
                    THEN grad' = [grad EXCEPT !.pc = "panic", !.index1 = index2]
                    ELSE grad' = [grad EXCEPT !.pc = "done", !.index1 = index2,
                                              !.color = got.color]
           ELSE grad' = [grad EXCEPT !.index1 = index2]
    /\ UNCHANGED <<conv, lrp, tile, dith, pal, pin, gene, cm, ar, nidx, geno, pix>>

InitGradient ==
    /\ GradInit
    /\ conv = Idle /\ lrp = Idle /\ tile = Idle /\ dith = Idle /\ pal = Idle
    /\ pin = Idle /\ gene = Idle /\ cm = Idle /\ ar = Idle
    /\ nidx = Idle /\ geno = Idle /\ pix = Idle

NextGradient == GradientNew \/ GetColor \/ IterNext

SpecGradient == InitGradient /\ [][NextGradient]_vars

\* get_color runs alone on its thread: a step of find() that can be taken is
\* taken
SpecGradientFair == SpecGradient /\ WF_vars(IterNext)

\* the stored points of the built gradient, and the one after point i
GradientBuilt == grad.pc \in {"ready", "find", "done", "panic"}
NextPoint(i) == grad.points[(i % Len(grad.points)) + 1]

\* C4: in every Gradient built by Gradient::new, every consecutive pair of
\* points (also the pair last -> first) has wrapped distance > 0, and the
\* assertion distance > 0.0 of ControlPoint::lerp never fails in get_color.
C4_PositiveIntervals ==
    /\ grad.pc # "panic"
    /\ GradientBuilt =>
           \A i \in 1..Len(grad.points) :
               wrap(NextPoint(i).position - grad.points[i].position) > 0

\* What holds of the code for C4: the intervals are positive when no two
\* points share a position, and get_color panics only when all of them do.
GradientPositiveWhenDistinct ==
    GradientBuilt =>
        LET n == Len(grad.points)
            distinct == \A i, j \in 1..n : i # j => grad.points[i].position # grad.points[j].position
            allsame  == \A i, j \in 1..n : grad.points[i].position = grad.points[j].position
        IN  /\ n >= 2
            /\ \A i \in 1..(n - 1) : grad.points[i].position <= grad.points[i + 1].position
            /\ distinct =>
                   \A i \in 1..n : wrap(NextPoint(i).position - grad.points[i].position) > 0
            /\ grad.pc = "panic" => allsame

\* C28: on every Gradient built by Gradient::new, points of equal positions
\* included, and for every position, the search of get_color comes to a pair
\* that contains the wrapped position and get_color returns a color; the
\* search never runs forever.
C28_GetColorReturns == (grad.pc = "find") ~> (grad.pc = "done")

\* What holds of the code for C28: the search ends, with a color, on every
\* gradient whose points are not all at one position.
GetColorReturnsWhenSpread ==
    (/\ grad.pc = "find"
     /\ \E i, j \in 1..Len(grad.points) : grad.points[i].position # grad.points[j].position)
        ~> (grad.pc = "done")

\* C7: get_color(cp.position) returns exactly cp.color for every control
\* point cp stored in the gradient.
C7_ControlPointColor ==
    grad.pc = "done" =>
        \A i \in 1..Len(grad.points) :
            grad.points[i].position = wrap(grad.position)
                => grad.color = grad.points[i].color

(***************************************************************************)
(* Subgradient::contains called on its own, as the tests                   *)
(* test_subgradient_contains and test_subgradient_contains_wraparound do.  *)
(***************************************************************************)
\* positions asked for: from -1.0 to 1.0 + MaxContainsTurns
MaxContainsTurns == 1
ContainsPositions == (-PositionUnits)..((1 + MaxContainsTurns) * PositionUnits)

SubInit ==
    grad \in [pc : {"sub"},
              point1 : [color : {BLACK}, position : GradientPositions \cup {64, 192}],
              point2 : [color : {BLACK}, position : GradientPositions \cup {64, 192}],
              position : ContainsPositions, result : {FALSE}]

\* Subgradient::new(point1, point2).contains(position)
Contains ==
    /\ grad.pc = "sub"
    /\ grad' = [grad EXCEPT !.pc = "contains",
                   !.result = Subgradient_contains(grad.point1, grad.point2, grad.position)]
    /\ UNCHANGED <<conv, lrp, tile, dith, pal, pin, gene, cm, ar, nidx, geno, pix>>

InitSubgradient ==
    /\ SubInit
    /\ conv = Idle /\ lrp = Idle /\ tile = Idle /\ dith = Idle /\ pal = Idle
    /\ pin = Idle /\ gene = Idle /\ cm = Idle /\ ar = Idle
    /\ nidx = Idle /\ geno = Idle /\ pix = Idle

NextSubgradient == Contains

SpecSubgradient == InitSubgradient /\ [][NextSubgradient]_vars

\* the positions passed when walking from position `from` up to position
\* `to` in the increasing direction, around the wrap if need be, ends included
ArcFromTo(from, to) == {(from + k) % PositionUnits : k \in 0..((to - from) % PositionUnits)}

\* C6: contains(p) is true exactly when wrap(p) lies in the closed interval
\* from point1.position to point2.position taken in the increasing direction
\* (across 0 when point1.position > point2.position), both ends included.
C6_ContainsClosedArc ==
    grad.pc = "contains" =>
        LET w == grad.position - PositionUnits * ((grad.position + 2 * PositionUnits) \div PositionUnits - 2)
        IN  /\ grad.result <=> w \in ArcFromTo(grad.point1.position, grad.point2.position)
            /\ grad.result <=>
                   IF grad.point1.position <= grad.point2.position
                   THEN grad.point1.position <= w /\ w <= grad.point2.position
                   ELSE w >= grad.point1.position \/ w <= grad.point2.position

\* C6 witness: contains(1.0) is true of the pair (0.75, 0.25), on its end
\* point2 after the wrap: contains(1.25)
C6_Witness ==
    /\ grad.pc = "contains"
    /\ grad.point1.position = 192 /\ grad.point2.position = 64
    /\ grad.position = PositionUnits + 64
    /\ grad.result

(***************************************************************************)
(* palette.rs: Palette::new.                                               *)
(***************************************************************************)
\* round-to-nearest-even of the integer p * 2^e to a 24-bit significand
RECURSIVE F32Round(_, _, _)
F32Round(p, e, s) ==
    IF p \div 2^s >= 2 * F32Hidden THEN F32Round(p, e, s + 1)
    ELSE LET q  == p \div 2^s
             r  == p % 2^s
             up == 2 * r > 2^s \/ (2 * r = 2^s /\ q % 2 = 1)
             m  == IF up THEN q + 1 ELSE q
         IN  IF m = 2 * F32Hidden THEN [m |-> F32Hidden, e |-> e + s + 1]
             ELSE [m |-> m, e |-> e + s]

\* the f32 product of a small integer k (0 <= k < 2^7) and the f32 f
F32MulSmall(k, f) ==
    CHOOSE product \in {IF k = 0 \/ g.m = 0 THEN [m |-> 0, e |-> 0]
                        ELSE F32Round(k * g.m, g.e, 0) : g \in {f}} : TRUE

\* `as usize` of a non-negative f32 below 2^24: truncation
F32Trunc(f) ==
    IF f.m = 0 \/ f.e <= -24 THEN 0
    ELSE IF f.e >= 0 THEN f.m * 2^f.e ELSE f.m \div 2^(-f.e)

\* the mutant of average: the mean truncated instead of rounded
average_floor(colors) ==
    LET n == Len(colors)
        total(i) == LET RECURSIVE sum(_)
                        sum(k) == IF k = 0 THEN 0 ELSE colors[k][i] + sum(k - 1)
                    IN  sum(n)
    IN  [i \in 1..3 |-> total(i) \div n]

\* LinearColor::average: f32 totals, then round(total / num_colors) per channel.
\* The totals of the model's samples are below 2^24, hence exact, and the
\* quotient is further than an f32 rounding error from a half unless it is one:
\* round(), which rounds a half away from zero, gives floor(total/n + 1/2).
average(colors) ==
    LET n == Len(colors)
        total(i) == LET RECURSIVE sum(_)
                        sum(k) == IF k = 0 THEN 0 ELSE colors[k][i] + sum(k - 1)
                    IN  sum(n)
    IN  [i \in 1..3 |-> (2 * total(i) + n) \div (2 * n)]

\* the first n entries of the initial palette:
\* samples[(i as f32 * subsample_distance) as usize] for i in 0..n
RECURSIVE subsample(_, _, _)
subsample(palette_size, samples, n) ==
    IF n = 0 THEN <<>>
    ELSE LET subsample_distance == F32Div(Len(samples), palette_size)
         IN  Append(subsample(palette_size, samples, n - 1),
                    samples[F32Trunc(F32MulSmall(n - 1, subsample_distance)) + 1])

\* cgmath Vector3 operations on triples
vsub(a, b) == <<a[1] - b[1], a[2] - b[2], a[3] - b[3]>>
dot(a, b) == a[1] * b[1] + a[2] * b[2] + a[3] * b[3]
magnitude2(a) == dot(a, a)

\* LinearColor::to_vec3: the channels as a vector
to_vec3(c) == c

\* scale of the force between two palette entries: mag2*mag2, and 1 for the
\* zero delta the code leaves unscaled
force_scale(colors, i, j) ==
    LET mag2 == magnitude2(vsub(to_vec3(colors[i]), to_vec3(colors[j])))
    IN  IF mag2 * mag2 > 0 THEN mag2 * mag2 ELSE 1

\* the product of the scales of entry i against every entry up to k but j
RECURSIVE other_scales(_, _, _, _)
other_scales(colors, i, j, k) ==
    IF k = 0 THEN 1
    ELSE (IF k = j THEN 1 ELSE force_scale(colors, i, k)) * other_scales(colors, i, j, k - 1)

\* one channel of scaled_forces.sum() over the entries up to j, times the
\* product of all the scales of entry i: the sum of raw/scale in exact
\* arithmetic, times a positive factor that changes no sign and no comparison
\* of dot products
RECURSIVE force_channel(_, _, _, _)
force_channel(colors, i, ch, j) ==
    IF j = 0 THEN 0
    ELSE (to_vec3(colors[i])[ch] - to_vec3(colors[j])[ch]) * other_scales(colors, i, j, Len(colors))
         + force_channel(colors, i, ch, j - 1)

\* repelling_forces for the entries up to the i-th
RECURSIVE repelling_forces(_, _)
repelling_forces(colors, i) ==
    IF i = 0 THEN <<>>
    ELSE Append(repelling_forces(colors, i - 1),
                <<force_channel(colors, i, 1, Len(colors)),
                  force_channel(colors, i, 2, Len(colors)),
                  force_channel(colors, i, 3, Len(colors))>>)

\* outside_palette_indexes (0-based): no other color lies along the force
outside_palette_indexes(colors, forces) ==
    {i - 1 : i \in {k \in 1..Len(colors) :
        ~\E o \in 1..Len(colors) :
            dot(forces[k], vsub(to_vec3(colors[o]), to_vec3(colors[k]))) > 0}}

\* samples.iter().max_by_key(dot with force): the last of several maxima
most_extreme_sample(samples, force) ==
    LET key(k) == dot(to_vec3(samples[k]), force)
        best == CHOOSE k \in 1..Len(samples) :
                    /\ \A l \in 1..Len(samples) : key(l) <= key(k)
                    /\ \A l \in (k + 1)..Len(samples) : key(l) < key(k)
    IN  samples[best]

\* the palette index of every sample, in sample order
RECURSIVE nearest_indexes(_, _, _)
nearest_indexes(colors, samples, k) ==
    IF k = 0 THEN <<>>
    ELSE Append(nearest_indexes(colors, samples, k - 1),
                get_nearest_index(colors, samples[k]))

\* palette_index_to_samples[palette_index]: the samples nearest to that entry,
\* in sample order
RECURSIVE nearest_samples(_, _, _, _)
nearest_samples(samples, indexes, palette_index, k) ==
    IF k = 0 THEN <<>>
    ELSE IF indexes[k] = palette_index
         THEN Append(nearest_samples(samples, indexes, palette_index, k - 1), samples[k])
         ELSE nearest_samples(samples, indexes, palette_index, k - 1)

\* the mutant of replace_with_averages: the pinned entries are averaged too
RECURSIVE replace_with_averages_all(_, _, _, _, _)
replace_with_averages_all(colors, samples, pinned, indexes, i) ==
    IF i = 0 THEN <<>>
    ELSE Append(replace_with_averages_all(colors, samples, pinned, indexes, i - 1),
                CHOOSE entry \in
                    {IF Len(group) > 0 THEN average(group) ELSE colors[i] :
                         group \in {nearest_samples(samples, indexes, i - 1, Len(samples))}} :
                    TRUE)

\* the second half of the loop body, over the entries up to the i-th
RECURSIVE replace_with_averages(_, _, _, _, _)
replace_with_averages(colors, samples, pinned, indexes, i) ==
    IF i = 0 THEN <<>>
    ELSE Append(replace_with_averages(colors, samples, pinned, indexes, i - 1),
                CHOOSE entry \in
                    {IF Len(group) > 0 /\ (i - 1) \notin pinned THEN average(group)
                     ELSE colors[i] :
                         group \in {nearest_samples(samples, indexes, i - 1, Len(samples))}} :
                    TRUE)

\* the mutant of pad_with_black: the black entries first
pad_black_first(palette_size, samples) ==
    [i \in 1..palette_size |->
        IF i <= palette_size - Len(samples) THEN <<0, 0, 0>>
        ELSE samples[i - (palette_size - Len(samples))]]

\* the mutant of pad_with_black: the samples alone
pad_none(palette_size, samples) == samples

\* the shortcut of Palette::new: the samples, then black up to palette_size
pad_with_black(palette_size, samples) ==
    [i \in 1..palette_size |-> IF i <= Len(samples) THEN samples[i] ELSE <<0, 0, 0>>]

\* the palette after the update of the outside entries: each becomes the most
\* extreme sample along its force (the forces are those of the subsampled
\* palette, so the order in which the HashSet yields the indexes makes no
\* difference)
pin_outside(colors, samples, forces, outside) ==
    [i \in 1..Len(colors) |->
        IF (i - 1) \in outside THEN most_extreme_sample(samples, forces[i])
        ELSE colors[i]]

\* the mutant of palette_updated: a loop that never sees an unchanged palette
loop_exit_never(old, new) == TRUE

\* `while palette_updated`: whether an iteration replaced some entry
palette_updated(old, new) == old # new

\* the mutant of palette_size_asserted: a palette of one entry is let through
palette_size_asserted_from_1(palette_size) ==
    palette_size >= 1 /\ palette_size <= U16_MAX

\* assert!(palette_size >= 2); assert!(palette_size <= u16::MAX as usize):
\* the first two statements of Palette::new and of calculate_palette
palette_size_asserted(palette_size) ==
    palette_size >= 2 /\ palette_size <= U16_MAX

\* Sample lists of up to MaxSamples colors, palettes of up to MaxPaletteSize
MaxSamples == 4
MaxPaletteSize == 3
SampleColors == {<<0, 0, 0>>, <<1, 1, 0>>, <<2, 2, 1>>, <<3, 3, 3>>}
SampleLists == UNION {[1..n -> SampleColors] : n \in 1..MaxSamples}

PalInit ==
    pal \in [pc : {"new"}, palette_size : 1..MaxPaletteSize, samples : SampleLists,
             maximize_range : BOOLEAN, colors : {<<>>}, pinned : {{}},
             palette_updated : {TRUE}, moved : {FALSE}]

\* Palette::new up to the k-means loop
PaletteNew ==
    /\ pal.pc = "new"
    /\ IF ~palette_size_asserted(pal.palette_size)
       THEN pal' = [pal EXCEPT !.pc = "panic"]
       ELSE IF Len(pal.samples) <= pal.palette_size
       THEN pal' = [pal EXCEPT !.pc = "done",
                               !.colors = pad_with_black(pal.palette_size, pal.samples)]
       ELSE \E initial \in {subsample(pal.palette_size, pal.samples, pal.palette_size)} :
            IF pal.maximize_range
            THEN \E forces \in {repelling_forces(initial, Len(initial))} :
                 \E outside \in {outside_palette_indexes(initial, forces)} :
                    pal' = [pal EXCEPT !.pc = "kmeans",
                                       !.colors = pin_outside(initial, pal.samples,
                                                              forces, outside),
                                       !.pinned = outside]
            ELSE pal' = [pal EXCEPT !.pc = "kmeans", !.colors = initial]
    /\ UNCHANGED <<conv, lrp, tile, dith, grad, pin, gene, cm, ar, nidx, geno, pix>>

\* gradient.get_color(position) in calculate_palette, the gradient being known
\* by its samples: samples[j] is its color at the f32 sample_step*j, and its
\* color at any other position is any of the colors sampled
gradient_colors_at(samples, position) ==
    CHOOSE colors \in
        {IF \E j \in 1..Len(samples) : F32MulSmall(j - 1, sample_step) = at
         THEN {samples[j] : j \in {k \in 1..Len(samples) :
                                      F32MulSmall(k - 1, sample_step) = at}}
         ELSE {samples[j] : j \in 1..Len(samples)} :
             sample_step \in {F32Div(1, Len(samples))}, at \in {position}} : TRUE

\* the initial palettes of calculate_palette: the gradient at palette_step*i
\* for the entries i up to the n-th
RECURSIVE initial_palettes(_, _, _)
initial_palettes(palette_size, samples, n) ==
    IF n = 0 THEN {<<>>}
    ELSE LET palette_step == F32Div(1, palette_size)
         IN  {Append(palette, color) :
                 palette \in initial_palettes(palette_size, samples, n - 1),
                 color \in gradient_colors_at(samples, F32MulSmall(n - 1, palette_step))}

\* ColorMapper::calculate_palette up to the k-means loop.  It takes a fixed
\* number of samples of the gradient, here MaxSamples, and no maximize_range.
CalculatePalette ==
    /\ pal.pc = "new"
    /\ ~pal.maximize_range
    /\ Len(pal.samples) = MaxSamples
    /\ IF ~palette_size_asserted(pal.palette_size)
       THEN pal' = [pal EXCEPT !.pc = "panic"]
       ELSE \E initial \in initial_palettes(pal.palette_size, pal.samples,
                                             pal.palette_size) :
                pal' = [pal EXCEPT !.pc = "kmeans", !.colors = initial]
    /\ UNCHANGED <<conv, lrp, tile, dith, grad, pin, gene, cm, ar, nidx, geno, pix>>

\* one iteration of `while palette_updated`
KMeansIteration ==
    /\ pal.pc = "kmeans"
    /\ \E indexes \in {nearest_indexes(pal.colors, pal.samples, Len(pal.samples))} :
       \E new \in {replace_with_averages(pal.colors, pal.samples, pal.pinned,
                                         indexes, Len(pal.colors))} :
       \E updated \in {palette_updated(pal.colors, new)} :
          pal' = [pal EXCEPT !.colors = new,
                             !.palette_updated = updated,
                             !.moved = pal.moved \/ updated,
                             !.pc = IF updated THEN "kmeans" ELSE "done"]
    /\ UNCHANGED <<conv, lrp, tile, dith, grad, pin, gene, cm, ar, nidx, geno, pix>>

InitPalette ==
    /\ PalInit
    /\ conv = Idle /\ lrp = Idle /\ tile = Idle /\ dith = Idle /\ grad = Idle
    /\ pin = Idle /\ gene = Idle /\ cm = Idle /\ ar = Idle
    /\ nidx = Idle /\ geno = Idle /\ pix = Idle

NextPalette == PaletteNew \/ CalculatePalette \/ KMeansIteration

SpecPalette == InitPalette /\ [][NextPalette]_vars

\* the loop is the only thing running: an enabled iteration is taken
SpecPaletteFair == SpecPalette /\ WF_vars(NextPalette)

\* C8: Palette::new(n, samples, maximize_range) returns exactly n colors,
\* whether the samples are fewer than, as many as, or more than n.
C8_PaletteSize ==
    pal.pc = "done" => Len(pal.colors) = pal.palette_size

\* a palette returned after pinning and clustering more samples than entries
C8_Witness ==
    /\ pal.pc = "done"
    /\ Len(pal.samples) > pal.palette_size
    /\ pal.pinned # {}
    /\ pal.moved
    /\ Len(pal.colors) = pal.palette_size

\* C16: when samples.len() <= palette_size, Palette::new returns the samples
\* unchanged and in order at indexes 0..samples.len()-1, then black entries up
\* to palette_size, for either value of maximize_range, and neither pins an
\* entry nor enters the clustering loop.
C16_Shortcut ==
    /\ pal.pc = "kmeans" => Len(pal.samples) > pal.palette_size
    /\ (pal.pc = "done" /\ Len(pal.samples) <= pal.palette_size) =>
           /\ Len(pal.colors) = pal.palette_size
           /\ SubSeq(pal.colors, 1, Len(pal.samples)) = pal.samples
           /\ \A i \in (Len(pal.samples) + 1)..pal.palette_size :
                  pal.colors[i] = <<0, 0, 0>>
           /\ pal.pinned = {} /\ ~pal.moved

\* C16 witness: a palette returned by the shortcut with maximize_range set,
\* fewer samples than entries, and a first sample that is not black
C16_Witness ==
    /\ pal.pc = "done" /\ pal.maximize_range
    /\ Len(pal.samples) < pal.palette_size
    /\ pal.samples[1] # <<0, 0, 0>>
    /\ pal.colors[1] = pal.samples[1]
    /\ pal.colors[pal.palette_size] = <<0, 0, 0>>

AssignedTo(colors, samples, i) ==
    {k \in 1..Len(samples) :
        /\ \A j \in 1..Len(colors) :
              ~U64Less(squared_distance(samples[k], colors[j]),
                       squared_distance(samples[k], colors[i]))
        /\ \A j \in 1..(i - 1) :
              U64Less(squared_distance(samples[k], colors[i]),
                      squared_distance(samples[k], colors[j]))}

RECURSIVE ChannelTotal(_, _, _)
ChannelTotal(samples, ks, ch) ==
    IF ks = {} THEN 0
    ELSE LET k == CHOOSE x \in ks : TRUE
         IN  samples[k][ch] + ChannelTotal(samples, ks \ {k}, ch)

RoundedMean(samples, ks) ==
    [ch \in 1..3 |->
        (2 * ChannelTotal(samples, ks, ch) + Cardinality(ks)) \div (2 * Cardinality(ks))]

OneMoreStep(colors, samples, pinned) ==
    [i \in 1..Len(colors) |->
        IF AssignedTo(colors, samples, i) # {} /\ (i - 1) \notin pinned
        THEN RoundedMean(samples, AssignedTo(colors, samples, i))
        ELSE colors[i]]

C27_PinnedKept ==
    [][/\ (pal.pc = "new" /\ pal'.pc = "kmeans") =>
              /\ pal'.pinned # {} => pal.maximize_range
              /\ \A i \in 1..Len(pal'.colors) :
                     (i - 1) \in pal'.pinned =>
                         \E k \in 1..Len(pal.samples) : pal'.colors[i] = pal.samples[k]
       /\ pal.pc = "kmeans" =>
              /\ pal'.pinned = pal.pinned
              /\ \A i \in 1..Len(pal.colors) :
                     /\ (i - 1) \in pal.pinned => pal'.colors[i] = pal.colors[i]
                     /\ pal'.colors[i] # pal.colors[i] =>
                            pal'.colors[i] =
                                RoundedMean(pal.samples,
                                            AssignedTo(pal.colors, pal.samples, i))]_vars

\* a returned palette that clustering moved, with a pinned entry that is not
\* the mean of the samples assigned to it
C27_Witness ==
    /\ pal.pc = "done"
    /\ pal.moved
    /\ \E i \in 1..Len(pal.colors) :
          /\ (i - 1) \in pal.pinned
          /\ AssignedTo(pal.colors, pal.samples, i) # {}
          /\ pal.colors[i] # RoundedMean(pal.samples, AssignedTo(pal.colors, pal.samples, i))

(***************************************************************************)
(* palette.rs, the update of the outside entries followed step by step.    *)
(* outside_palette_indexes is a HashSet: `for &palette_index in            *)
(* outside_palette_indexes.iter()` yields its elements in an order that    *)
(* differs from run to run, so each step takes any index not yet visited.  *)
(***************************************************************************)
\* the mutant of pinned_color: the force recomputed from the palette as it
\* is when the entry is visited
pinned_color_current(colors, samples, forces, palette_index) ==
    most_extreme_sample(samples, repelling_forces(colors, Len(colors))[palette_index + 1])

\* the body of the loop over the outside indexes: the new color of the entry
pinned_color(colors, samples, forces, palette_index) ==
    most_extreme_sample(samples, forces[palette_index + 1])

\* the k-means loop of Palette::new run to its end
RECURSIVE kmeans_loop(_, _, _)
kmeans_loop(colors, samples, pinned) ==
    LET indexes == nearest_indexes(colors, samples, Len(samples))
        new     == replace_with_averages(colors, samples, pinned, indexes, Len(colors))
    IN  IF palette_updated(colors, new) THEN kmeans_loop(new, samples, pinned) ELSE new

PinInit ==
    pin \in [pc : {"new"}, palette_size : 2..MaxPaletteSize,
             samples : {l \in SampleLists : Len(l) > 2},
             colors : {<<>>}, forces : {<<>>}, outside : {{}}, todo : {{}}]

\* Palette::new(palette_size, samples, true) up to the loop over the outside
\* indexes; with samples.len() <= palette_size it returns by the shortcut
PinStart ==
    /\ pin.pc = "new"
    /\ IF Len(pin.samples) <= pin.palette_size
       THEN pin' = [pin EXCEPT !.pc = "done",
                               !.colors = pad_with_black(pin.palette_size, pin.samples)]
       ELSE LET initial == subsample(pin.palette_size, pin.samples, pin.palette_size)
                forces  == repelling_forces(initial, Len(initial))
                outside == outside_palette_indexes(initial, forces)
            IN  pin' = [pin EXCEPT !.pc = "pinning", !.colors = initial,
                                   !.forces = forces, !.outside = outside,
                                   !.todo = outside]
    /\ UNCHANGED <<conv, lrp, tile, dith, grad, pal, gene, cm, ar, nidx, geno, pix>>

\* one iteration of the loop, for whichever index the HashSet yields next
PinNext ==
    /\ pin.pc = "pinning"
    /\ \E palette_index \in pin.todo :
           pin' = [pin EXCEPT
               !.colors[palette_index + 1] =
                   pinned_color(pin.colors, pin.samples, pin.forces, palette_index),
               !.todo = @ \ {palette_index}]
    /\ UNCHANGED <<conv, lrp, tile, dith, grad, pal, gene, cm, ar, nidx, geno, pix>>

\* the rest of Palette::new once the HashSet is exhausted: the k-means loop
PinCluster ==
    /\ pin.pc = "pinning"
    /\ pin.todo = {}
    /\ pin' = [pin EXCEPT !.pc = "done",
                          !.colors = kmeans_loop(pin.colors, pin.samples, pin.outside)]
    /\ UNCHANGED <<conv, lrp, tile, dith, grad, pal, gene, cm, ar, nidx, geno, pix>>

InitPinning ==
    /\ PinInit
    /\ conv = Idle /\ lrp = Idle /\ tile = Idle /\ dith = Idle /\ grad = Idle
    /\ pal = Idle /\ gene = Idle /\ cm = Idle /\ ar = Idle
    /\ nidx = Idle /\ geno = Idle /\ pix = Idle

NextPinning == PinStart \/ PinNext \/ PinCluster

SpecPinning == InitPinning /\ [][NextPinning]_vars

\* the palette Palette::new(palette_size, samples, true) returns when the
\* outside entries are all replaced at once
PaletteOf(palette_size, samples) ==
    IF Len(samples) <= palette_size THEN pad_with_black(palette_size, samples)
    ELSE LET initial == subsample(palette_size, samples, palette_size)
             forces  == repelling_forces(initial, Len(initial))
             outside == outside_palette_indexes(initial, forces)
         IN  kmeans_loop(pin_outside(initial, samples, forces, outside), samples, outside)

\* C14: Palette::new is a function of its arguments: whatever the order in
\* which the HashSet of outside indexes is iterated, the palette after the
\* replacement of the outside entries, and the palette returned, are the same
\* for the same (palette_size, samples, maximize_range).  (DitherPattern::new
\* uses no unordered collection: each of its steps has one outcome.)
C14_Deterministic ==
    /\ (pin.pc = "pinning" /\ pin.todo = {}) =>
           pin.colors = pin_outside(subsample(pin.palette_size, pin.samples, pin.palette_size),
                                    pin.samples, pin.forces, pin.outside)
    /\ pin.pc = "done" => pin.colors = PaletteOf(pin.palette_size, pin.samples)

\* C14 witness: a returned palette with three pinned entries, which the loop
\* may have visited in six orders, all of them replaced by another sample
C14_Witness ==
    /\ pin.pc = "done"
    /\ Cardinality(pin.outside) = 3
    /\ LET initial == subsample(pin.palette_size, pin.samples, pin.palette_size)
       IN  \A i \in pin.outside :
               pinned_color(initial, pin.samples, pin.forces, i) # initial[i + 1]

(***************************************************************************)
(* asyncrenderer.rs.  The caller owns the AsyncRenderer (&mut self); the   *)
(* worker thread owns the two channel ends handed to AsyncRenderer::thread.*)
(* A channel is the sequence of the messages sent and not yet received.    *)
(* A u32 is a pair <<hi, lo>> for hi * 2^16 + lo.  A Genome is a number,   *)
(* Option<Genome> is that number or NoGenome; an Image is the genome and   *)
(* the time it was rendered with.  Every request also carries the number   *)
(* of the render() call that made it (serial), which the code does not     *)
(* have: it tells which request an image was produced for.                 *)
(***************************************************************************)
NoGenome == 0
NoImage == [none |-> TRUE]

\* u32::wrapping_add on the pairs
wrapping_add(id, n) ==
    <<(id[1] + n[1] + ((id[2] + n[2]) \div 2^16)) % 2^16, (id[2] + n[2]) % 2^16>>

\* next_request_id called `times` times in a row: `times` wrapping_add(1)
next_request_id(last_request_id, times) == wrapping_add(last_request_id, times)

\* the mutant of genome_or: the genome of a skipped request is dropped
genome_or_none(genome, old_genome) == genome

\* request.genome.or(old_genome)
genome_or(genome, old_genome) == IF genome # NoGenome THEN genome ELSE old_genome

\* calls of render() and runs of set_genome() the caller makes at most
MaxRenders == 3
MaxSetGenomes == 3
Genomes == {1, 2}
RenderTimes == {0, 1}
\* lengths of a run of consecutive set_genome(&genome) calls: one call, and
\* 2^32 - 1 calls
SetGenomeRuns == {<<0, 1>>, <<2^16 - 1, 2^16 - 1>>}

\* AsyncRenderer::new: two empty channels, the worker blocked in rx.recv()
AsyncInit ==
    ar = [last_request_id |-> <<0, 0>>, genome |-> NoGenome, genome_set |-> FALSE,
          request_q |-> <<>>, response_q |-> <<>>,
          pc |-> "idle", returned |-> NoImage,
          wpc |-> "recv", request |-> NoImage, renderer |-> NoGenome,
          latest |-> 0, renders |-> 0, set_genomes |-> 0, lapped |-> FALSE,
          set_genome_last |-> NoGenome, some_count |-> 0, some_latest |-> 0]

\* a run of `times` consecutive set_genome(&genome) calls.  set_genome reads
\* and writes fields of the AsyncRenderer only, which the worker never sees,
\* so steps of the worker in between change nothing for either side.
SetGenome ==
    /\ ar.pc = "idle"
    /\ ar.set_genomes < MaxSetGenomes
    /\ \E genome \in Genomes, times \in SetGenomeRuns :
           ar' = [ar EXCEPT !.genome = genome, !.genome_set = TRUE,
                            !.last_request_id = next_request_id(@, times),
                            !.returned = NoImage, !.latest = 0,
                            !.set_genomes = @ + 1,
                            !.lapped = @ \/ times # <<0, 1>>,
                            !.set_genome_last = genome,
                            !.some_count = 0, !.some_latest = 0]
    /\ UNCHANGED <<conv, lrp, tile, dith, grad, pal, pin, gene, cm, nidx, geno, pix>>

\* render(width, height, time); the assertion fails before set_genome()
Render ==
    /\ ar.pc = "idle"
    /\ ar.renders < MaxRenders
    /\ \E time \in RenderTimes :
           IF ~ar.genome_set THEN ar' = [ar EXCEPT !.pc = "panic"]
           ELSE LET id == next_request_id(ar.last_request_id, <<0, 1>>)
                IN  ar' = [ar EXCEPT
                        !.last_request_id = id,
                        !.genome = NoGenome,
                        !.request_q = Append(@, [request_id |-> id, genome |-> ar.genome,
                                                 time |-> time, serial |-> ar.renders + 1,
                                                 expected |-> ar.set_genome_last,
                                                 carried |-> FALSE]),
                        !.returned = NoImage,
                        !.renders = @ + 1, !.latest = ar.renders + 1,
                        !.some_count = 0, !.some_latest = 0]
    /\ UNCHANGED <<conv, lrp, tile, dith, grad, pal, pin, gene, cm, nidx, geno, pix>>

\* get_image(): one response_rx.try_recv() of its loop.  An empty channel
\* ends the call with None, a response with the last request id ends it with
\* Some(image), any other response is dropped and the loop goes on.
GetImage ==
    /\ ar.pc \in {"idle", "get_image"}
    /\ IF ar.response_q = <<>>
       THEN ar' = [ar EXCEPT !.pc = "idle", !.returned = NoImage]
       ELSE LET response == Head(ar.response_q)
            IN  IF response.request_id = ar.last_request_id
                THEN ar' = [ar EXCEPT !.pc = "idle", !.response_q = Tail(@),
                                      !.returned = response,
                                      !.some_count = @ + 1,
                                      !.some_latest =
                                          IF response.serial = ar.latest THEN @ + 1 ELSE @]
                ELSE ar' = [ar EXCEPT !.pc = "get_image", !.response_q = Tail(@),
                                      !.returned = NoImage]
    /\ UNCHANGED <<conv, lrp, tile, dith, grad, pal, pin, gene, cm, nidx, geno, pix>>

\* the worker: rx.recv() returns the oldest request
WorkerRecv ==
    /\ ar.wpc = "recv"
    /\ ar.request_q # <<>>
    /\ ar' = [ar EXCEPT !.wpc = "backlog", !.request = Head(ar.request_q),
                        !.request_q = Tail(@)]
    /\ UNCHANGED <<conv, lrp, tile, dith, grad, pal, pin, gene, cm, nidx, geno, pix>>

\* the worker: one rx.try_recv() of the fast-forward loop; a newer request
\* replaces the one held and keeps the older genome if it has none
WorkerTryRecv ==
    /\ ar.wpc = "backlog"
    /\ IF ar.request_q = <<>>
       THEN ar' = [ar EXCEPT !.wpc = "render"]
       ELSE LET req        == Head(ar.request_q)
                old_genome == ar.request.genome
            IN  ar' = [ar EXCEPT
                    !.request = [req EXCEPT
                                    !.genome = genome_or(req.genome, old_genome),
                                    !.carried = req.genome = NoGenome
                                                /\ old_genome # NoGenome],
                    !.request_q = Tail(@)]
    /\ UNCHANGED <<conv, lrp, tile, dith, grad, pal, pin, gene, cm, nidx, geno, pix>>

\* the worker: rebuild the renderer for a new genome, render the frame and
\* send the response; renderer.as_mut().unwrap() panics without a renderer
WorkerRender ==
    /\ ar.wpc = "render"
    /\ LET renderer == IF ar.request.genome # NoGenome THEN ar.request.genome
                       ELSE ar.renderer
       IN  IF renderer = NoGenome THEN ar' = [ar EXCEPT !.wpc = "panic"]
           ELSE ar' = [ar EXCEPT
                   !.wpc = "recv", !.renderer = renderer,
                   !.response_q = Append(@, [none |-> FALSE,
                                             request_id |-> ar.request.request_id,
                                             image |-> [genome |-> renderer,
                                                        time |-> ar.request.time],
                                             serial |-> ar.request.serial,
                                             expected |-> ar.request.expected,
                                             carried |-> ar.request.carried])]
    /\ UNCHANGED <<conv, lrp, tile, dith, grad, pal, pin, gene, cm, nidx, geno, pix>>

InitAsync ==
    /\ AsyncInit
    /\ conv = Idle /\ lrp = Idle /\ tile = Idle /\ dith = Idle /\ grad = Idle
    /\ pal = Idle /\ pin = Idle /\ gene = Idle /\ cm = Idle
    /\ nidx = Idle /\ geno = Idle /\ pix = Idle

NextAsync ==
    SetGenome \/ Render \/ GetImage \/ WorkerRecv \/ WorkerTryRecv \/ WorkerRender

SpecAsync == InitAsync /\ [][NextAsync]_vars

\* C30: under any interleaving of set_genome()/render() calls with the worker,
\* every request the worker renders is rendered with a renderer built from
\* the genome most recently passed to set_genome before the request was
\* issued, also when the worker skips backlog requests, and the worker never
\* unwraps a renderer that is None.
C30_RendererOfLatestGenome ==
    /\ ar.wpc # "panic"
    /\ \A k \in 1..Len(ar.response_q) :
           ar.response_q[k].image.genome = ar.response_q[k].expected
    /\ ~ar.returned.none => ar.returned.image.genome = ar.returned.expected

\* the worker has rendered a request that came without a genome, after it
\* skipped a request that carried one, while the caller has set another
\* genome since
C30_Witness ==
    /\ Len(ar.response_q) > 0
    /\ ar.response_q[Len(ar.response_q)].carried
    /\ ar.response_q[Len(ar.response_q)].image.genome = 2
    /\ ar.set_genome_last = 1

\* The worker thread is scheduled fairly, and the caller goes on calling
\* get_image() (wait_for_image polls it every 5 ms).
SpecAsyncFair ==
    /\ SpecAsync
    /\ WF_vars(WorkerRecv) /\ WF_vars(WorkerTryRecv) /\ WF_vars(WorkerRender)
    /\ WF_vars(GetImage)

\* the request of the n-th render() call is the most recent call of the
\* caller, and get_image() has returned its image `times` times
Delivered(n, times) == ar.latest = n /\ ar.some_latest = times

\* C21: after set_genome(g) and render(w, h, t), if no further render() or
\* set_genome() is called, then under fair scheduling of the worker repeated
\* calls of get_image eventually return Some(image) for that request, and
\* return Some(image) exactly once.
C21_ImageExactlyOnce ==
    /\ \A n \in 1..MaxRenders : (ar.latest = n) ~> (ar.latest # n \/ Delivered(n, 1))
    /\ [](ar.some_count <= 1)

\* What holds of the code for C21: the image of the most recent request is
\* returned in the end unless a further call is made, it is returned once,
\* and it is the only image returned unless 2^32 or more request ids have been
\* handed out since an earlier request was made (C20).
ImageOfLatestRequestOnce ==
    /\ \A n \in 1..MaxRenders : (ar.latest = n) ~> (ar.latest # n \/ Delivered(n, 1))
    /\ [](ar.some_latest <= 1)
    /\ [](~ar.lapped => ar.some_count <= 1)

\* C20: get_image returns Some(image) only for the response to the most
\* recent request: the image was produced for the latest render() call and no
\* set_genome() has been called since, under any interleaving with the worker.
C20_OnlyLatestImage ==
    ~ar.returned.none => ar.returned.serial = ar.latest

\* What holds of the code for C20: the response returned carries the last
\* request id, and it is the response to the most recent request unless 2^32
\* or more ids have been handed out since its request was made.
ReturnedImageLatestUnlessLapped ==
    ~ar.returned.none =>
        /\ ar.returned.request_id = ar.last_request_id
        /\ ~ar.lapped => ar.returned.serial = ar.latest

(***************************************************************************)
(* f32 arithmetic with a sign: in a record [m, e] the significand m is 0   *)
(* or has 2^23 <= |m| < 2^24.  Each operation rounds its exact result to   *)
(* the nearest value, ties to even, as the hardware does; the values of    *)
(* the color computations stay far from overflow and underflow.            *)
(***************************************************************************)
F32Zero == [m |-> 0, e |-> 0]
F32Neg(a) == [m |-> -a.m, e |-> a.e]
F32Abs(a) == [m |-> IF a.m < 0 THEN -a.m ELSE a.m, e |-> a.e]

\* the f32 nearest to the integer p times 2^e, |p| < 2^31.  (Here and below
\* a one-element set binds an operand to its value.)
RECURSIVE F32Of(_, _)
F32Of(p0, e0) ==
    CHOOSE f \in
        {IF p = 0 THEN F32Zero
         ELSE IF p < 0 THEN F32Neg(F32Of(-p, e))
         ELSE IF p < F32Hidden THEN F32Of(2 * p, e - 1)
         ELSE F32Round(p, e, 0) : p \in {p0}, e \in {e0}} : TRUE

F32One == F32Of(1, 0)
F32Half == F32Of(1, -1)
F32Quarter == F32Of(1, -2)

\* a + b.  The operand of larger exponent is kept whole with 5 more bits; of
\* the other, the bits below that are kept as one sticky bit.
F32Add(a0, b0) ==
    CHOOSE f \in
        {IF a.m = 0 THEN b
         ELSE IF b.m = 0 THEN a
         ELSE LET big   == IF a.e >= b.e THEN a ELSE b
                  small == IF a.e >= b.e THEN b ELSE a
                  d     == big.e - small.e
              IN  IF d <= 6 THEN F32Of(big.m * 2^d + small.m, small.e)
                  ELSE LET sh     == d - 5
                           sm     == IF small.m < 0 THEN -small.m ELSE small.m
                           q      == IF sh >= 25 THEN 0 ELSE sm \div 2^sh
                           sticky == IF sh >= 25 THEN 1
                                     ELSE IF sm % 2^sh # 0 THEN 1 ELSE 0
                           sgn    == IF small.m < 0 THEN -1 ELSE 1
                       IN  F32Of(2 * (big.m * 2^5 + sgn * q) + sgn * sticky, big.e - 6) :
             a \in {a0}, b \in {b0}} : TRUE

\* a - b
F32Sub(a, b) == F32Add(a, F32Neg(b))

\* a < b: the rounded difference has the sign of the exact one
F32Less(a, b) == F32Sub(a, b).m < 0

\* a * b: the 48-bit product of the significands in 12-bit halves, its bits
\* below the top 29 kept as one sticky bit
F32Mul(a0, b0) ==
    CHOOSE f \in
        {IF a.m = 0 \/ b.m = 0 THEN F32Zero
         ELSE LET am     == IF a.m < 0 THEN -a.m ELSE a.m
                  bm     == IF b.m < 0 THEN -b.m ELSE b.m
                  a1     == am \div 2^12
                  a0l    == am % 2^12
                  b1     == bm \div 2^12
                  b0l    == bm % 2^12
                  mid    == a1 * b0l + a0l * b1
                  low    == (mid % 2^12) * 2^12 + a0l * b0l
                  high   == a1 * b1 + (mid \div 2^12) + (low \div 2^24)
                  lowrem == low % 2^24
                  t      == 2 * (high * 2^5 + (lowrem \div 2^19))
                            + (IF lowrem % 2^19 # 0 THEN 1 ELSE 0)
                  sgn    == IF (a.m < 0) = (b.m < 0) THEN 1 ELSE -1
              IN  F32Of(sgn * t, a.e + b.e + 18) :
             a \in {a0}, b \in {b0}} : TRUE

\* a / b, b # 0
F32Quot(a0, b0) ==
    CHOOSE f \in
        {IF a.m = 0 THEN F32Zero
         ELSE LET am == IF a.m < 0 THEN -a.m ELSE a.m
                  bm == IF b.m < 0 THEN -b.m ELSE b.m
              IN  IF (a.m < 0) = (b.m < 0)
                  THEN F32DivNorm(am \div bm, am % bm, bm, a.e - b.e)
                  ELSE F32Neg(F32DivNorm(am \div bm, am % bm, bm, a.e - b.e)) :
             a \in {a0}, b \in {b0}} : TRUE

\* f32::max of two numbers
F32Max(a0, b0) ==
    CHOOSE f \in {IF F32Less(a, b) THEN b ELSE a : a \in {a0}, b \in {b0}} : TRUE

\* FastMath::clamp(0.0, 1.0): self.min(upper).max(lower)
f32_clamp(x0) ==
    CHOOSE f \in
        {IF F32Less(F32One, x) THEN F32One
         ELSE IF F32Less(x, F32Zero) THEN F32Zero ELSE x : x \in {x0}} : TRUE

\* FastMath::lerp: self*(1.0 - position) + other*position
f32_lerp(x0, other0, position0) ==
    CHOOSE f \in
        {F32Add(F32Mul(x, F32Sub(F32One, position)), F32Mul(other, position)) :
             x \in {x0}, other \in {other0}, position \in {position0}} : TRUE

\* FastMath::wrap of a non-negative f32: self - self.floor()
f32_wrap(x0) ==
    CHOOSE f \in {F32Sub(x, F32Of(F32Trunc(x), 0)) : x \in {x0}} : TRUE

(***************************************************************************)
(* colormapper.rs: LinearColor::from_hsl, from_square_hsl and              *)
(* ControlPoint::from_gene.  A Gene is its sequence of bytes.              *)
(***************************************************************************)
\* the end of from_hsl: the component values from the bounds and the hue
hsl_components(upper, lower, sector, offset) ==
    CHOOSE c \in
        {CASE sector = 0 -> new_f32(upper, up, lower)
           [] sector = 1 -> new_f32(down, upper, lower)
           [] sector = 2 -> new_f32(lower, upper, up)
           [] sector = 3 -> new_f32(lower, down, upper)
           [] sector = 4 -> new_f32(up, lower, upper)
           [] sector = 5 -> new_f32(upper, lower, down) :
             up \in {f32_lerp(lower, upper, offset)},
             down \in {f32_lerp(upper, lower, offset)}} : TRUE

\* the middle of from_hsl: the bounds with the lightness applied
hsl_bounds(h, s, l) ==
    CHOOSE c \in
        {hsl_components(upper, lower, sector, offset) :
             upper \in {f32_lerp(F32Add(F32Half, F32Quot(s, F32Of(2, 0))),
                                 \* l.round(): halves round away from zero
                                 IF F32Less(l, F32Half) THEN F32Zero ELSE F32One,
                                 F32Mul(F32Abs(F32Sub(l, F32Half)), F32Of(2, 0)))},
             lower \in {f32_lerp(F32Sub(F32Half, F32Quot(s, F32Of(2, 0))),
                                 IF F32Less(l, F32Half) THEN F32Zero ELSE F32One,
                                 F32Mul(F32Abs(F32Sub(l, F32Half)), F32Of(2, 0)))},
             \* (h*6.0) as u32 % 6
             sector \in {F32Trunc(F32Mul(h, F32Of(6, 0))) % 6},
             \* (h*6.0).fract()
             offset \in {F32Sub(F32Mul(h, F32Of(6, 0)),
                                F32Of(F32Trunc(F32Mul(h, F32Of(6, 0))), 0))}} : TRUE

\* LinearColor::from_hsl, for hue >= 0
from_hsl(hue, saturation, lightness) ==
    CHOOSE c \in
        {hsl_bounds(h, s, l) :
             h \in {f32_wrap(hue)}, s \in {f32_clamp(saturation)},
             l \in {f32_clamp(lightness)}} : TRUE

\* the hue of from_square_hsl, from the Cartesian coordinates
square_hue(x, y, saturation) ==
    CHOOSE hue \in
        {IF F32Less(x, y) /\ F32Less(F32Neg(x), y) THEN adj_x
         ELSE IF ~F32Less(x, y) /\ F32Less(F32Neg(x), y)
         THEN F32Add(F32Quarter, F32Sub(F32Quarter, adj_y))
         ELSE IF ~F32Less(x, y) /\ ~F32Less(F32Neg(x), y)
         THEN F32Add(F32Half, F32Sub(F32Quarter, adj_x))
         ELSE F32Add(F32Of(3, -2), adj_y) :
             adj_x \in {F32Quot(F32Add(x, saturation),
                                F32Mul(F32Mul(saturation, F32Of(2, 0)), F32Of(4, 0)))},
             adj_y \in {F32Quot(F32Add(y, saturation),
                                F32Mul(F32Mul(saturation, F32Of(2, 0)), F32Of(4, 0)))}} : TRUE

\* LinearColor::from_square_hsl
from_square_hsl(color_x, color_y, lightness) ==
    CHOOSE c \in
        {CHOOSE c2 \in
             {IF saturation = F32Zero THEN from_hsl(F32Zero, saturation, lightness)
              ELSE from_hsl(square_hue(x, y, saturation), saturation, lightness) :
                  saturation \in {F32Max(F32Abs(x), F32Abs(y))}} : TRUE :
             x \in {f32_lerp(F32Neg(F32One), F32One, f32_clamp(color_x))},
             y \in {f32_lerp(F32Neg(F32One), F32One, f32_clamp(color_y))}} : TRUE

CONTROL_POINT_GENE_SIZE == 5
activation_threshold == 140
NoControlPoint == [none |-> TRUE]

\* the mutant of gene_position: the position byte divided by 255.0
gene_position_255(byte) == F32Div(byte, U8_MAX)

\* the position of from_gene: (gene.data[4] as f32)/256.0
gene_position(byte) == F32Div(byte, 256)

\* ControlPoint::from_gene of a gene of CONTROL_POINT_GENE_SIZE bytes: None,
\* or Some control point with an f32 position
from_gene(data) ==
    IF data[1] > activation_threshold
    THEN [none |-> FALSE,
          color |-> from_square_hsl(F32Div(data[2], U8_MAX), F32Div(data[3], U8_MAX),
                                    F32Div(data[4], U8_MAX)),
          position |-> gene_position(data[5])]
    ELSE NoControlPoint

\* an f32 position in [0, 2) as a number of 1/PositionUnits, rounded down
position_units(f) == F32Trunc(F32Mul(f, F32Of(PositionUnits, 0)))

\* chromosome.genes.iter().filter_map(from_gene).collect(): the control
\* points of the active genes, in gene order
RECURSIVE filter_map_from_gene(_, _)
filter_map_from_gene(genes, n) ==
    IF n = 0 THEN <<>>
    ELSE CHOOSE points \in
             {IF cp.none THEN filter_map_from_gene(genes, n - 1)
              ELSE Append(filter_map_from_gene(genes, n - 1),
                          [color |-> cp.color, position |-> position_units(cp.position)]) :
                  cp \in {from_gene(genes[n])}} : TRUE

\* the outcome of a call that never returns
Hung == [panic |-> FALSE, hang |-> TRUE]

\* Gradient::get_color: the iterator yields the pairs (n-1, 0), (0, 1), ...
\* round and round; find() stops at the first pair that contains pos, and
\* never stops when no pair does
Gradient_get_color(points, position) ==
    LET pos    == wrap(position)
        n      == Len(points)
        index1(k) == ((n - 2 + k) % n) + 1
        index2(k) == (index1(k) % n) + 1
        hits   == {k \in 1..n : Subgradient_contains(points[index1(k)], points[index2(k)], pos)}
    IN  IF hits = {} THEN Hung
        ELSE LET k == CHOOSE h \in hits : \A o \in hits : h <= o
             IN  Subgradient_get_color(points[index1(k)], points[index2(k)], pos)

(***************************************************************************)
(* The gradient of a chromosome: the first step of ColorMapper::new, and   *)
(* Gradient::get_color on the gradient it builds.                          *)
(***************************************************************************)
\* chromosomes: one active gene at every position byte, and up to MaxGenes
\* genes out of ScenarioGenes (two genes that share a position byte, two
\* that do not, an inactive gene and a gene of four bytes)
MaxGenes == 2
ScenarioGenes ==
    {<<255, 0, 0, 127, 255>>, <<255, 255, 255, 127, 255>>,
     <<255, 0, 0, 127, 0>>, <<255, 255, 255, 127, 128>>,
     <<activation_threshold, 255, 0, 255, 64>>, <<255, 0, 0, 127>>}
Chromosomes ==
    {<<<<activation_threshold + 1, 0, 255, 200, b>>>> : b \in 0..U8_MAX}
    \cup UNION {[1..n -> ScenarioGenes] : n \in 0..MaxGenes}
GeneQueryPositions == {0, 64, 127, 128, 255, PositionUnits + 64}

GeneInit ==
    gene \in [pc : {"new"}, genes : Chromosomes, decoded : {<<>>}, points : {<<>>},
              position : {0}, result : {Hung}]

\* the gradient of ColorMapper::new: from_gene over the genes, Gradient::new
BuildGradient ==
    /\ gene.pc = "new"
    /\ IF \E i \in 1..Len(gene.genes) : Len(gene.genes[i]) # CONTROL_POINT_GENE_SIZE
       THEN \* assert!(gene.data.len() == CONTROL_POINT_GENE_SIZE) fails
            gene' = [gene EXCEPT !.pc = "panic", !.result = Panicked]
       ELSE gene' = [gene EXCEPT
                !.pc = "ready",
                !.decoded = [i \in 1..Len(gene.genes) |-> from_gene(gene.genes[i])],
                !.points = Gradient_new(filter_map_from_gene(gene.genes, Len(gene.genes)))]
    /\ UNCHANGED <<conv, lrp, tile, dith, grad, pal, pin, cm, ar, nidx, geno, pix>>

\* gradient.get_color(position)
GeneGetColor ==
    /\ gene.pc \in {"ready", "done"}
    /\ \E position \in GeneQueryPositions :
           LET got == Gradient_get_color(gene.points, position)
           IN  gene' = [gene EXCEPT
                   !.pc = IF got.panic THEN "panic" ELSE IF got = Hung THEN "hang"
                          ELSE "done",
                   !.position = position, !.result = got]
    /\ UNCHANGED <<conv, lrp, tile, dith, grad, pal, pin, cm, ar, nidx, geno, pix>>

InitGene ==
    /\ GeneInit
    /\ conv = Idle /\ lrp = Idle /\ tile = Idle /\ dith = Idle /\ grad = Idle
    /\ pal = Idle /\ pin = Idle /\ cm = Idle /\ ar = Idle
    /\ nidx = Idle /\ geno = Idle /\ pix = Idle

NextGene == BuildGradient \/ GeneGetColor

SpecGene == InitGene /\ [][NextGene]_vars

\* C19: from_gene maps the position byte b to b/256, which lies in [0, 1),
\* and no other position byte gives the same position.
C19_PositionInjective ==
    gene.pc # "new" =>
        \A i \in 1..Len(gene.decoded) :
            ~gene.decoded[i].none =>
                LET b == gene.genes[i][5]
                    p == gene.decoded[i].position
                IN  /\ p.m >= 0 /\ F32Less(p, F32One)
                    /\ p = F32Of(b, -8)
                    /\ \A other \in 0..U8_MAX :
                           other # b => gene_position(other) # p

\* C19 witness: the gene with position byte 255 decoded, to the last f32
\* position before 1.0 that a byte can give
C19_Witness ==
    /\ gene.pc = "ready"
    /\ Len(gene.genes) = 1 /\ gene.genes[1][5] = U8_MAX
    /\ ~gene.decoded[1].none
    /\ gene.decoded[1].position = F32Of(U8_MAX, -8)

\* C18: for the gradient of the genes [255,0,0,127,255] and
\* [255,255,255,127,255], get_color at the position halfway between the two
\* points (the points' own position 255/256, their distance being 0, or
\* 127/256 halfway round the circle) returns
\* endpoint1.color.lerp(endpoint2.color, 0.5).
C18_MidpointAverage ==
    (/\ gene.genes = <<<<255, 0, 0, 127, 255>>, <<255, 255, 255, 127, 255>>>>
     /\ gene.pc \in {"done", "panic", "hang"}
     /\ gene.position \in {255, 127}) =>
        gene.result = Returned(LinearColor_lerp(gene.decoded[1].color,
                                                gene.decoded[2].color, 1, 2))

\* What holds of the code for C18: the two genes decode to the colors
\* (32639, 0, 65278) and (32639, 65278, 0) at one position, 255/256; there
\* get_color panics, and at every other position it never returns.  For two
\* genes at different positions the color halfway is the lerp at 0.5.
GeneMidpointWhenDistinct ==
    /\ (gene.pc # "new"
        /\ gene.genes = <<<<255, 0, 0, 127, 255>>, <<255, 255, 255, 127, 255>>>>) =>
           /\ gene.points = <<[color |-> <<32639, 0, 65278>>, position |-> 255],
                              [color |-> <<32639, 65278, 0>>, position |-> 255]>>
           /\ gene.pc \in {"done", "panic", "hang"} =>
                  gene.result = IF gene.position = 255 THEN Panicked ELSE Hung
    /\ (gene.pc = "done"
        /\ gene.genes = <<<<255, 0, 0, 127, 0>>, <<255, 255, 255, 127, 128>>>>
        /\ gene.position = 64) =>
           gene.result = Returned(LinearColor_lerp(gene.decoded[1].color,
                                                   gene.decoded[2].color, 1, 2))

(***************************************************************************)
(* colormapper.rs: PaletteUtils::get_dither_info as a function of the      *)
(* palette and the color, the loop of DitherPattern::new run to its end.   *)
(***************************************************************************)
\* target of one trial: the color less the accumulated error
dither_target(color, errors) ==
    <<sub_error(color[1], errors[1]), sub_error(color[2], errors[2]),
      sub_error(color[3], errors[3])>>

\* <<nearest_palette_index, nearest_subpalette_index>> of trial i, the second
\* 1-based and 0 for None
dither_nearest(palette, st, target, i) ==
    IF allow_new_colors(i, st.subpalette)
    THEN CHOOSE pair \in {<<p, position_of(st.palette_indexes, p)>> :
                             p \in {get_nearest_index(palette, target)}} : TRUE
    ELSE CHOOSE pair \in {<<st.palette_indexes[s + 1], s + 1>> :
                             s \in {get_nearest_index(st.subpalette, target)}} : TRUE

\* the bookkeeping of one trial: subpalette, counts and accumulated error
dither_record(st, palette, color, near) ==
    LET last_color == palette[near[1] + 1]
    IN  [subpalette |-> IF near[2] # 0 THEN st.subpalette
                        ELSE Append(st.subpalette, last_color),
         palette_indexes |-> IF near[2] # 0 THEN st.palette_indexes
                             ELSE Append(st.palette_indexes, near[1]),
         counts |-> IF near[2] # 0 THEN [st.counts EXCEPT ![near[2]] = @ + 1]
                    ELSE Append(st.counts, 1),
         errors |-> <<st.errors[1] + last_color[1] - color[1],
                      st.errors[2] + last_color[2] - color[2],
                      st.errors[3] + last_color[3] - color[3]>>]

\* iteration i of `for i in 0..64`, from the state st of the loop
dither_step(palette, color, i, st) ==
    CHOOSE next \in
        {dither_record(st, palette, color, near) :
            near \in {CHOOSE pair \in {dither_nearest(palette, st, target, i) :
                                          target \in {dither_target(color, st.errors)}} :
                         TRUE}} : TRUE

\* the n iterations of the loop from iteration i on, from the state st: the
\* first half of them, then the rest
RECURSIVE dither_run(_, _, _, _, _)
dither_run(palette, color, i, n, st) ==
    IF n = 0 THEN st
    ELSE IF n = 1 THEN dither_step(palette, color, i, st)
    ELSE CHOOSE end \in
             {dither_run(palette, color, i + (n \div 2), n - (n \div 2), mid) :
                 mid \in {dither_run(palette, color, i, n \div 2, st)}} : TRUE

\* the first i iterations of the loop
dither_trials(palette, color, i) ==
    CHOOSE end \in
        {dither_run(palette, color, 0, i, st) :
            st \in {[subpalette |-> <<>>, palette_indexes |-> <<>>, counts |-> <<>>,
                     errors |-> <<0, 0, 0>>]}} : TRUE

\* the code after the loop: the sorted (palette_index, count) pairs in the
\* four slots; a fifth pair is a write out of bounds, a panic
dither_assemble(st) ==
    LET n == Len(st.palette_indexes)
    IN  IF n > 4 THEN Panicked
        ELSE CHOOSE info \in
                 {[panic |-> FALSE,
                   palette_indexes |->
                       [k \in 1..4 |-> IF k <= n THEN indexes_counts[k][1] % 2^16 ELSE 0],
                   palette_proportions |->
                       [k \in 1..4 |-> IF k <= n THEN indexes_counts[k][2] % 2^8 ELSE 0]] :
                     indexes_counts \in
                         {sort_pairs({<<st.palette_indexes[k], st.counts[k]>> :
                                         k \in 1..n})}} : TRUE

\* PaletteUtils::get_dither_info
get_dither_info(palette, color) ==
    CHOOSE info \in {dither_assemble(dither_trials(p, c, NumTrials)) :
                        p \in {palette}, c \in {color}} : TRUE

\* get_dither_info is the function that the actions Trial and Assemble compute
DitherInfoIsDitherPattern ==
    dith.pc = "done" =>
        \E info \in {get_dither_info(dith.palette, dith.color)} :
            /\ ~info.panic
            /\ info.palette_indexes = dith.retval.palette_indexes
            /\ info.palette_proportions = dith.retval.palette_proportions

(***************************************************************************)
(* colormapper.rs: ColorMapper::new (the gradient, calculate_palette, the  *)
(* lookup tables) and the accessors get_nearest_color, get_dithered_color. *)
(* A ColorMapper is [palette, lookup_table_nearest, lookup_table_dithered];*)
(* an Option is None or Some(value).  The lookup tables and the sample     *)
(* list have 2^TableBits entries, where the source has 512 = 2^9.          *)
(***************************************************************************)
None == [some |-> FALSE]
Some(v) == [some |-> TRUE, value |-> v]
unwrap_or(option, default) == IF option.some THEN option.value ELSE default

TableBits == 3
LOOKUP_TABLE_SIZE == 2^TableBits

\* gradient.get_color(step*i as f32) for the i below n, in call order
RECURSIVE gradient_calls(_, _, _)
gradient_calls(points, step, n) ==
    IF n = 0 THEN <<>>
    ELSE CHOOSE calls \in
             {Append(before, got) :
                 before \in {gradient_calls(points, step, n - 1)},
                 got \in {Gradient_get_color(points,
                              position_units(F32MulSmall(n - 1, step)))}} : TRUE

\* how a run of calls ends: at the first call that panics or never returns
calls_outcome(calls) ==
    LET failed == {k \in 1..Len(calls) : calls[k].panic \/ calls[k] = Hung}
    IN  IF failed = {} THEN "ok"
        ELSE IF calls[CHOOSE k \in failed : \A o \in failed : k <= o].panic
             THEN "panic" ELSE "hang"

\* the colors that a run of calls returned
calls_colors(calls) == [k \in 1..Len(calls) |-> calls[k].color]

\* LinearColor::to_gamma over the palette
gamma_encoded(linear_palette) ==
    [k \in 1..Len(linear_palette) |->
        <<component_to_gamma(linear_palette[k][1]),
          component_to_gamma(linear_palette[k][2]),
          component_to_gamma(linear_palette[k][3])>>]

\* the mutant of nearest_table: the entries count the palette from 1
nearest_table_from_1(linear_palette, colors) ==
    [k \in 1..Len(colors) |-> (get_nearest_index(linear_palette, colors[k]) + 1) % 2^16]

\* the table of get_nearest_palette_index(color) as u16 over the colors
nearest_table(linear_palette, colors) ==
    [k \in 1..Len(colors) |-> get_nearest_index(linear_palette, colors[k]) % 2^16]

\* the table of get_dither_info(color) over the colors
dithered_table(linear_palette, colors) ==
    [k \in 1..Len(colors) |-> get_dither_info(linear_palette, colors[k])]

\* the mutant of lookup_tables: both tables are built
lookup_tables_both(dithering, linear_palette, colors) ==
    [nearest  |-> Some(nearest_table(linear_palette, colors)),
     dithered |-> Some(dithered_table(linear_palette, colors))]

\* `if settings.dithering { ... } else { ... }` of ColorMapper::new: the two
\* Options after it
lookup_tables(dithering, linear_palette, colors) ==
    IF dithering
    THEN [nearest  |-> None,
          dithered |-> Some(dithered_table(linear_palette, colors))]
    ELSE [nearest  |-> Some(nearest_table(linear_palette, colors)),
          dithered |-> None]

\* index of the accessors: (position.wrap()*LOOKUP_TABLE_SIZE).floor() as usize
\* % LOOKUP_TABLE_SIZE, 0-based
lookup_index(position) ==
    ((wrap(position) * LOOKUP_TABLE_SIZE) \div PositionUnits) % LOOKUP_TABLE_SIZE

\* the mutant of get_nearest_color: without its table it answers with the
\* first palette entry
get_nearest_color_lenient(mapper, position) ==
    IF mapper.lookup_table_nearest.some
    THEN LET index == lookup_index(position)
         IN  IF index >= Len(mapper.lookup_table_nearest.value) THEN Panicked
             ELSE LET palette_index == mapper.lookup_table_nearest.value[index + 1]
                  IN  IF palette_index >= Len(mapper.palette) THEN Panicked
                      ELSE Returned(mapper.palette[palette_index + 1])
    ELSE Returned(mapper.palette[1])

\* ColorMapper::get_nearest_color; an index out of bounds is a panic
get_nearest_color(mapper, position) ==
    IF mapper.lookup_table_nearest.some
    THEN LET index == lookup_index(position)
         IN  IF index >= Len(mapper.lookup_table_nearest.value) THEN Panicked
             ELSE LET palette_index == mapper.lookup_table_nearest.value[index + 1]
                  IN  IF palette_index >= Len(mapper.palette) THEN Panicked
                      ELSE Returned(mapper.palette[palette_index + 1])
    ELSE Panicked

\* ColorMapper::get_dithered_color; an index out of bounds is a panic
get_dithered_color(mapper, position, x, y) ==
    IF mapper.lookup_table_dithered.some
    THEN LET index == lookup_index(position)
         IN  IF index >= Len(mapper.lookup_table_dithered.value) THEN Panicked
             ELSE LET dither_info   == mapper.lookup_table_dithered.value[index + 1]
                      palette_index == get_palette_index(dither_info, x, y)
                  IN  IF palette_index < 0 \/ palette_index >= Len(mapper.palette)
                      THEN Panicked
                      ELSE Returned(mapper.palette[palette_index + 1])
    ELSE Panicked

\* Chromosomes of up to MaxGenes genes out of ScenarioGenes; settings with
\* and without dithering, without a palette size and with sizes on both
\* sides of the two assertions; accessor calls at positions inside and
\* outside [0, 1) and at pixels inside and outside the first 8x8 tile.
CmChromosomes == UNION {[1..n -> ScenarioGenes] : n \in 0..MaxGenes}
CmPaletteSizes == {None} \cup {Some(n) : n \in {0, 1, 2, MaxPaletteSize, U16_MAX + 1}}
CmPositions == {0, 100, PositionUnits - 1, PositionUnits + 33, -1}
CmPixels == {<<0, 0>>, <<7, 3>>, <<9, 12>>}
NoMapper == [palette |-> <<>>, lookup_table_nearest |-> None,
             lookup_table_dithered |-> None]

CmInit ==
    cm \in [pc : {"new"}, genes : CmChromosomes, dithering : BOOLEAN,
            palette_size : CmPaletteSizes, points : {<<>>}, samples : {<<>>},
            linear_palette : {<<>>}, mapper : {NoMapper}, call : {"none"},
            position : {0}, pixel : {<<0, 0>>}, result : {Hung}]

\* ColorMapper::new, "Build gradient"
CmBuildGradient ==
    /\ cm.pc = "new"
    /\ IF \E i \in 1..Len(cm.genes) : Len(cm.genes[i]) # CONTROL_POINT_GENE_SIZE
       THEN cm' = [cm EXCEPT !.pc = "panic"]
       ELSE \E points \in {Gradient_new(filter_map_from_gene(cm.genes, Len(cm.genes)))} :
                cm' = [cm EXCEPT !.pc = "gradient", !.points = points]
    /\ UNCHANGED <<conv, lrp, tile, dith, grad, pal, pin, gene, ar, nidx, geno, pix>>

\* ColorMapper::new, "Compute optimal palette for gradient": calculate_palette
CmCalculatePalette ==
    /\ cm.pc = "gradient"
    /\ \E palette_size \in {unwrap_or(cm.palette_size, LOOKUP_TABLE_SIZE)} :
       IF ~palette_size_asserted(palette_size)
       THEN cm' = [cm EXCEPT !.pc = "panic"]
       ELSE \E sampled \in {gradient_calls(cm.points, F32Div(1, LOOKUP_TABLE_SIZE),
                                           LOOKUP_TABLE_SIZE)} :
            IF calls_outcome(sampled) # "ok"
            THEN cm' = [cm EXCEPT !.pc = calls_outcome(sampled)]
            ELSE \E initial \in {gradient_calls(cm.points, F32Div(1, palette_size),
                                                palette_size)} :
                 IF calls_outcome(initial) # "ok"
                 THEN cm' = [cm EXCEPT !.pc = calls_outcome(initial),
                                       !.samples = calls_colors(sampled)]
                 ELSE \E samples \in {calls_colors(sampled)} :
                      \E palette \in {kmeans_loop(calls_colors(initial), samples, {})} :
                          cm' = [cm EXCEPT !.pc = "palette", !.samples = samples,
                                           !.linear_palette = palette]
    /\ UNCHANGED <<conv, lrp, tile, dith, grad, pal, pin, gene, ar, nidx, geno, pix>>

\* ColorMapper::new, "Build lookup tables" and the ColorMapper it returns
CmBuildTables ==
    /\ cm.pc = "palette"
    /\ \E colors \in {calls_colors(gradient_calls(cm.points,
                          F32Div(1, LOOKUP_TABLE_SIZE), LOOKUP_TABLE_SIZE))} :
       \E tables \in {lookup_tables(cm.dithering, cm.linear_palette, colors)} :
          IF tables.dithered.some
             /\ \E k \in 1..Len(tables.dithered.value) : tables.dithered.value[k].panic
          THEN cm' = [cm EXCEPT !.pc = "panic"]
          ELSE cm' = [cm EXCEPT
                   !.pc = "built",
                   !.mapper = [palette |-> gamma_encoded(cm.linear_palette),
                               lookup_table_nearest |-> tables.nearest,
                               lookup_table_dithered |-> tables.dithered]]
    /\ UNCHANGED <<conv, lrp, tile, dith, grad, pal, pin, gene, ar, nidx, geno, pix>>

\* a call of get_nearest_color on the ColorMapper built
CmGetNearestColor ==
    /\ cm.pc = "built"
    /\ \E position \in CmPositions :
          cm' = [cm EXCEPT !.call = "get_nearest_color", !.position = position,
                           !.pixel = <<0, 0>>,
                           !.result = get_nearest_color(cm.mapper, position)]
    /\ UNCHANGED <<conv, lrp, tile, dith, grad, pal, pin, gene, ar, nidx, geno, pix>>

\* a call of get_dithered_color on the ColorMapper built
CmGetDitheredColor ==
    /\ cm.pc = "built"
    /\ \E position \in CmPositions, pixel \in CmPixels :
          cm' = [cm EXCEPT !.call = "get_dithered_color", !.position = position,
                           !.pixel = pixel,
                           !.result = get_dithered_color(cm.mapper, position,
                                                         pixel[1], pixel[2])]
    /\ UNCHANGED <<conv, lrp, tile, dith, grad, pal, pin, gene, ar, nidx, geno, pix>>

InitColorMapper ==
    /\ CmInit
    /\ conv = Idle /\ lrp = Idle /\ tile = Idle /\ dith = Idle /\ grad = Idle
    /\ pal = Idle /\ pin = Idle /\ gene = Idle /\ ar = Idle
    /\ nidx = Idle /\ geno = Idle /\ pix = Idle

NextColorMapper ==
    \/ CmBuildGradient
    \/ CmCalculatePalette
    \/ CmBuildTables
    \/ CmGetNearestColor
    \/ CmGetDitheredColor

SpecColorMapper == InitColorMapper /\ [][NextColorMapper]_vars

\* C11: every ColorMapper that ColorMapper::new returns has exactly one of its
\* two lookup tables: the dithered one and not the nearest one when
\* settings.dithering is set, the nearest one and not the dithered one when it
\* is not; the accessors, which take &self, leave it so.
C11_ExactlyOneTable ==
    cm.pc = "built" =>
        /\ cm.mapper.lookup_table_dithered.some = cm.dithering
        /\ cm.mapper.lookup_table_nearest.some = ~cm.dithering
        /\ cm.dithering =>
               Len(cm.mapper.lookup_table_dithered.value) = LOOKUP_TABLE_SIZE
        /\ ~cm.dithering =>
               Len(cm.mapper.lookup_table_nearest.value) = LOOKUP_TABLE_SIZE

\* ColorMappers of both kinds are built, and are still of their kind after a
\* call of the accessor of that kind has returned
C11_Witness ==
    /\ cm.pc = "built"
    /\ cm.call # "none"
    /\ ~cm.result.panic
    /\ Len(cm.genes) = MaxGenes
    /\ cm.mapper.lookup_table_dithered.some
    /\ ~cm.mapper.lookup_table_nearest.some

\* C12: get_nearest_color panics on every call to a ColorMapper built with
\* dithering on, get_dithered_color panics on every call to one built with
\* dithering off, and the accessor that matches the build returns a color of
\* the palette.
C12_WrongAccessorPanics ==
    cm.call # "none" =>
        /\ cm.result.panic <=> (cm.call = "get_nearest_color") = cm.dithering
        /\ ~cm.result.panic =>
               \E k \in 1..Len(cm.mapper.palette) : cm.result.color = cm.mapper.palette[k]

\* get_nearest_color has panicked on a ColorMapper built with dithering on
C12_Witness ==
    /\ cm.call = "get_nearest_color"
    /\ cm.dithering
    /\ cm.result.panic
    /\ cm.position = PositionUnits + 33

\* C29: in every ColorMapper built by ColorMapper::new every entry of the
\* nearest-index table, and the palette index in every slot, used or not, of
\* every dither entry, is below palette.len(); the table index of every
\* position is within the table; so the accessor that matches the build
\* indexes nothing out of bounds and returns an element of get_palette().
C29_TablesInBounds ==
    cm.pc = "built" =>
        /\ Len(cm.mapper.palette) = Len(cm.linear_palette)
        /\ cm.mapper.lookup_table_nearest.some =>
               \A k \in 1..Len(cm.mapper.lookup_table_nearest.value) :
                   cm.mapper.lookup_table_nearest.value[k]
                       \in 0..(Len(cm.mapper.palette) - 1)
        /\ cm.mapper.lookup_table_dithered.some =>
               \A k \in 1..Len(cm.mapper.lookup_table_dithered.value), slot \in 1..4 :
                   cm.mapper.lookup_table_dithered.value[k].palette_indexes[slot]
                       \in 0..(Len(cm.mapper.palette) - 1)
        /\ \A position \in CmPositions :
               lookup_index(position) \in 0..(LOOKUP_TABLE_SIZE - 1)
        /\ ((cm.call = "get_nearest_color" /\ ~cm.dithering)
            \/ (cm.call = "get_dithered_color" /\ cm.dithering)) =>
               /\ ~cm.result.panic
               /\ \E k \in 1..Len(cm.mapper.palette) :
                      cm.result.color = cm.mapper.palette[k]

\* get_dithered_color has returned a palette entry, for a position below 0
\* and a pixel outside the first tile, from a dither entry with both used and
\* unused slots
C29_Witness ==
    /\ cm.pc = "built"
    /\ cm.call = "get_dithered_color"
    /\ cm.position = -1
    /\ cm.pixel = <<9, 12>>
    /\ ~cm.result.panic
    /\ Len(cm.mapper.palette) > 2
    /\ \E info \in {cm.mapper.lookup_table_dithered.value[lookup_index(cm.position) + 1]} :
          /\ info.palette_proportions[2] > 0
          /\ info.palette_proportions[4] = 0
          /\ cm.result.color \in {cm.mapper.palette[info.palette_indexes[slot] + 1] :
                                     slot \in 1..2}

(***************************************************************************)
(* The palette size assertions: Palette::new, calculate_palette and        *)
(* ColorMapper::new side by side, on palette sizes on both sides of 2 and  *)
(* of u16::MAX.                                                            *)
(***************************************************************************)
\* the sample lists of Palette::new here: one sample, and MaxSamples samples
SizeSampleLists == {[k \in 1..n |-> <<k - 1, k - 1, k \div 2>>] : n \in {1, MaxSamples}}
SizeProbes == {0, 1, 2, MaxPaletteSize, U16_MAX, U16_MAX + 1}
\* the chromosome of ColorMapper::new here: two genes at different positions
SizeChromosome == <<<<255, 0, 0, 127, 0>>, <<255, 255, 255, 127, 128>>>>

\* a palette of u16::MAX entries is asked of Palette::new alone
SizeInit ==
    /\ pal \in {p \in [pc : {"new"}, palette_size : SizeProbes, samples : SizeSampleLists,
                       maximize_range : BOOLEAN, colors : {<<>>}, pinned : {{}},
                       palette_updated : {TRUE}, moved : {FALSE}] :
                   p.palette_size = U16_MAX => p.maximize_range}
    /\ cm \in [pc : {"new"}, genes : {SizeChromosome}, dithering : BOOLEAN,
               palette_size : CmPaletteSizes, points : {<<>>}, samples : {<<>>},
               linear_palette : {<<>>}, mapper : {NoMapper}, call : {"none"},
               position : {0}, pixel : {<<0, 0>>}, result : {Hung}]

InitPaletteSize ==
    /\ SizeInit
    /\ conv = Idle /\ lrp = Idle /\ tile = Idle /\ dith = Idle /\ grad = Idle
    /\ pin = Idle /\ gene = Idle /\ ar = Idle
    /\ nidx = Idle /\ geno = Idle /\ pix = Idle

NextPaletteSize ==
    \/ PaletteNew
    \/ CalculatePalette
    \/ KMeansIteration
    \/ CmBuildGradient
    \/ CmCalculatePalette
    \/ CmBuildTables

SpecPaletteSize == InitPaletteSize /\ [][NextPaletteSize]_vars

\* C13: with a palette_size below 2 or above 65535, Palette::new and
\* calculate_palette stop at their assertions: no palette is produced and no
\* sample is taken or clustered; and ColorMapper::new returns no ColorMapper
\* when settings.palette_size is such a size.
C13_PaletteSizeAsserted ==
    /\ (pal.palette_size < 2 \/ pal.palette_size > U16_MAX) =>
           /\ pal.pc \in {"new", "panic"}
           /\ pal.colors = <<>>
    /\ (cm.palette_size.some
        /\ (cm.palette_size.value < 2 \/ cm.palette_size.value > U16_MAX)) =>
           /\ cm.pc \in {"new", "gradient", "panic"}
           /\ cm.samples = <<>>
           /\ cm.linear_palette = <<>>
           /\ cm.mapper = NoMapper

\* Palette::new has panicked on a palette_size of 65536, and ColorMapper::new
\* on a settings.palette_size of 1 after it had built its gradient
C13_Witness ==
    /\ pal.pc = "panic"
    /\ pal.palette_size = U16_MAX + 1
    /\ cm.pc = "panic"
    /\ cm.palette_size = Some(1)
    /\ Len(cm.points) = 2

(***************************************************************************)
(* color.rs: LinearColor::lerp at the positions k / 2^LerpBits, which are  *)
(* f32 values, every f32 operation of the code followed bit by bit.        *)
(***************************************************************************)
\* one channel of LinearColor::lerp:
\* to_component((x as f32).lerp(y as f32, position) / 65535.0)
lerp_component(x, y, position) ==
    to_component(F32Quot(f32_lerp(F32Of(x, 0), F32Of(y, 0), position),
                         F32Of(U16_MAX, 0)))

\* LinearColor::lerp
LinearColor_lerp_f32(a, b, position) ==
    CHOOSE color \in
        {<<lerp_component(a[1], b[1], t), lerp_component(a[2], b[2], t),
           lerp_component(a[3], b[3], t)>> : t \in {position}} : TRUE

LerpBits == 2
LerpInsideChannels == {0, 1, 2, 3, 100, 2^15, U16_MAX - 128, U16_MAX}
LerpInsideColors == {<<c, U16_MAX - c, c \div 2>> : c \in LerpInsideChannels}

LerpInsideInit ==
    lrp \in [pc : {"call"}, a : LerpInsideColors,
             b : {BLACK, WHITE, <<1, 2^15, 3>>},
             tn : 0..(2^LerpBits), td : {2^LerpBits}, out : {BLACK}]

\* a.lerp(b, tn/td)
LerpAt ==
    /\ lrp.pc = "call"
    /\ \E position \in {F32Of(lrp.tn, -LerpBits)} :
          lrp' = [lrp EXCEPT !.pc = "done",
                             !.out = LinearColor_lerp_f32(lrp.a, lrp.b, position)]
    /\ UNCHANGED <<conv, tile, dith, grad, pal, pin, gene, cm, ar, nidx, geno, pix>>

\* b.lerp(a, tn/td)
LerpAtSwap ==
    /\ lrp.pc = "call"
    /\ \E position \in {F32Of(lrp.tn, -LerpBits)} :
          lrp' = [lrp EXCEPT !.a = lrp.b, !.b = lrp.a, !.pc = "done",
                             !.out = LinearColor_lerp_f32(lrp.b, lrp.a, position)]
    /\ UNCHANGED <<conv, tile, dith, grad, pal, pin, gene, cm, ar, nidx, geno, pix>>

InitLerpInside ==
    /\ LerpInsideInit
    /\ conv = Idle /\ tile = Idle /\ dith = Idle /\ grad = Idle /\ pal = Idle
    /\ pin = Idle /\ gene = Idle /\ cm = Idle /\ ar = Idle
    /\ nidx = Idle /\ geno = Idle /\ pix = Idle

NextLerpInside == LerpAt \/ LerpAtSwap

SpecLerpInside == InitLerpInside /\ [][NextLerpInside]_vars

\* td times the exact interpolated value of channel i
LerpExact(i) == lrp.a[i] * (lrp.td - lrp.tn) + lrp.b[i] * lrp.tn

\* C24: each channel of a.lerp(b, t) is the integer nearest to the exact
\* interpolated value a_c*(1-t) + b_c*t, a tie going either way.
C24_LerpNearest ==
    lrp.pc = "done" =>
        \A i \in 1..3 :
            /\ 2 * (lrp.out[i] * lrp.td - LerpExact(i)) <= lrp.td
            /\ 2 * (LerpExact(i) - lrp.out[i] * lrp.td) <= lrp.td

\* What the code does instead: the exact value is scaled by 65536/65535 and
\* rounded down, which gives the integer below the exact value or, near the
\* top of the range, the first integer above it.
LerpFloorsScaled ==
    lrp.pc = "done" =>
        \A i \in 1..3 :
            /\ lrp.out[i] * lrp.td > LerpExact(i) - lrp.td
            /\ lrp.out[i] * lrp.td <= LerpExact(i) + lrp.td
            /\ lrp.out[i] <= U16_MAX

(***************************************************************************)
(* palette.rs: Palette::get_nearest_index on palettes of up to             *)
(* MaxNearestPalette colors with channels at both ends of the u16 range.   *)
(***************************************************************************)
MaxNearestPalette == 3
NearestChannels == {0, 1, 2^8, 2^15, U16_MAX - 1, U16_MAX}
NearestColors ==
    {<<c, c, c>> : c \in NearestChannels}
    \cup {<<U16_MAX, 0, 0>>, <<0, U16_MAX, 0>>, <<0, 0, U16_MAX>>, <<1, 2^8, 2^15>>}

NearestInit ==
    nidx \in [pc : {"call"},
              colors : UNION {[1..n -> NearestColors] : n \in 1..MaxNearestPalette},
              color : NearestColors, index : {0}, key : {<<0, 0>>}]

\* palette.get_nearest_index(color); key is the distance min_by_key saw for
\* the entry returned
GetNearestIndex ==
    /\ nidx.pc = "call"
    /\ \E index \in {get_nearest_index(nidx.colors, nidx.color)} :
          nidx' = [nidx EXCEPT !.pc = "done", !.index = index,
                               !.key = squared_distance(nidx.color,
                                                        nidx.colors[index + 1])]
    /\ UNCHANGED <<conv, lrp, tile, dith, grad, pal, pin, gene, cm, ar, geno, pix>>

\* the call on the palette with its entries in reverse order
GetNearestIndexReversed ==
    /\ nidx.pc = "call"
    /\ \E colors \in {[k \in 1..Len(nidx.colors) |->
                          nidx.colors[Len(nidx.colors) + 1 - k]]} :
       \E index \in {get_nearest_index(colors, nidx.color)} :
          nidx' = [nidx EXCEPT !.pc = "done", !.colors = colors, !.index = index,
                               !.key = squared_distance(nidx.color, colors[index + 1])]
    /\ UNCHANGED <<conv, lrp, tile, dith, grad, pal, pin, gene, cm, ar, geno, pix>>

InitNearest ==
    /\ NearestInit
    /\ conv = Idle /\ lrp = Idle /\ tile = Idle /\ dith = Idle /\ grad = Idle
    /\ pal = Idle /\ pin = Idle /\ gene = Idle /\ cm = Idle /\ ar = Idle
    /\ geno = Idle /\ pix = Idle

NextNearest == GetNearestIndex \/ GetNearestIndexReversed

SpecNearest == InitNearest /\ [][NextNearest]_vars

\* x + y on the naturals of any size
RECURSIVE BigAddCarry(_, _, _, _)
BigAddCarry(x, y, i, carry) ==
    IF i > Len(x) /\ i > Len(y) THEN BigFromNat(carry)
    ELSE LET t == (IF i <= Len(x) THEN x[i] ELSE 0)
                  + (IF i <= Len(y) THEN y[i] ELSE 0) + carry
         IN  <<t % LimbBase>> \o BigAddCarry(x, y, i + 1, t \div LimbBase)

\* the exact squared distance of two colors: the sum over the channels of the
\* squared difference
ExactSquare(x, y) == BigMulPow(<<1>>, IF x >= y THEN x - y ELSE y - x, 2)
ExactSquaredDistance(c, d) ==
    BigAddCarry(BigAddCarry(ExactSquare(c[1], d[1]), ExactSquare(c[2], d[2]), 1, 0),
                ExactSquare(c[3], d[3]), 1, 0)

\* C25: get_nearest_index(color) returns an index whose exact squared
\* distance to color, which is the distance the code computes, is minimal
\* over the whole palette, and the lowest of the indexes at that distance.
C25_NearestLowestIndex ==
    nidx.pc = "done" =>
        /\ nidx.index \in 0..(Len(nidx.colors) - 1)
        /\ BigAddCarry(BigMulPow(BigFromNat(nidx.key[1]), 2^8, 2),
                       BigFromNat(nidx.key[2]), 1, 0)
               = ExactSquaredDistance(nidx.color, nidx.colors[nidx.index + 1])
        /\ \A j \in 1..Len(nidx.colors) :
               /\ BigLeq(ExactSquaredDistance(nidx.color, nidx.colors[nidx.index + 1]),
                         ExactSquaredDistance(nidx.color, nidx.colors[j]))
               /\ j < nidx.index + 1 =>
                      BigLess(ExactSquaredDistance(nidx.color, nidx.colors[nidx.index + 1]),
                              ExactSquaredDistance(nidx.color, nidx.colors[j]))

\* an index other than the first returned for a color at a distance above
\* 2^32 that two entries of the palette share
C25_Witness ==
    /\ nidx.pc = "done"
    /\ nidx.index = 1
    /\ nidx.key[1] >= 2^16
    /\ Len(nidx.colors) = 3
    /\ nidx.colors[3] # nidx.colors[2]
    /\ ExactSquaredDistance(nidx.color, nidx.colors[3])
           = ExactSquaredDistance(nidx.color, nidx.colors[2])

(***************************************************************************)
(* Genome serialization (genetics.rs).  A gene is a sequence of bytes, a   *)
(* chromosome a sequence of genes, a genome a record of two chromosomes.   *)
(* A string is a sequence of one-character strings.                        *)
(***************************************************************************)
Ok(v) == [ok |-> TRUE, value |-> v]
Err(e) == [ok |-> FALSE, err |-> e]

\* the mutant of chromosome_header: the gene size masked with 0x7
chromosome_header_0x7(gene_size, num_genes) ==
    16 * (gene_size % 8) + (num_genes % 16)

\* ((gene_size & 0xF) << 4 | num_genes & 0xF) as u8
chromosome_header(gene_size, num_genes) ==
    16 * (gene_size % 16) + (num_genes % 16)

\* the assertions of Chromosome::to_bytes hold
Chromosome_asserted(c) ==
    \/ Len(c) = 0
    \/ /\ Len(c[1]) < 16
       /\ Len(c) < 16
       /\ \A g \in 1..Len(c) : Len(c[g]) = Len(c[1])

\* Chromosome::to_bytes: the header, then the genes one after the other
Chromosome_to_bytes(c) ==
    IF Len(c) = 0 THEN <<0>>
    ELSE [k \in 1..(1 + Len(c[1]) * Len(c)) |->
             IF k = 1 THEN chromosome_header(Len(c[1]), Len(c))
             ELSE c[((k - 2) \div Len(c[1])) + 1][((k - 2) % Len(c[1])) + 1]]

\* Chromosome::from_mut_slice: the chromosome at the head of the slice and
\* the slice that is left
Chromosome_from_mut_slice(slice) ==
    IF Len(slice) < 1 THEN Err("Chromosome header is missing")
    ELSE LET header    == slice[1]
             gene_size == (header \div 16) % 16
             num_genes == header % 16
         IN  IF Len(slice) - 1 < gene_size * num_genes
             THEN Err("Unexpected end of chromosome")
             ELSE Ok([chromosome |->
                          [g \in 1..num_genes |->
                              SubSeq(slice, 2 + (g - 1) * gene_size, 1 + g * gene_size)],
                      slice |-> SubSeq(slice, 2 + num_genes * gene_size, Len(slice))])

\* Genome::to_bytes
Genome_to_bytes(g) ==
    Chromosome_to_bytes(g.pattern) \o Chromosome_to_bytes(g.color)

\* Genome::from_bytes, with the number of bytes each chromosome took from
\* the slice and the number left at the end
Genome_from_bytes(bytes) ==
    LET pattern == Chromosome_from_mut_slice(bytes)
    IN  IF ~pattern.ok THEN pattern
        ELSE LET color == Chromosome_from_mut_slice(pattern.value.slice)
             IN  IF ~color.ok THEN color
                 ELSE IF color.value.slice # <<>>
                 THEN Err("Unexpected bytes at end of genome")
                 ELSE [ok |-> TRUE,
                       value |-> [pattern |-> pattern.value.chromosome,
                                  color |-> color.value.chromosome],
                       consumed |-> <<Len(bytes) - Len(pattern.value.slice),
                                      Len(pattern.value.slice) - Len(color.value.slice)>>,
                       left |-> Len(color.value.slice)]

\* the URL-safe alphabet of base64
URLSAFE_CHARS ==
    <<"A", "B", "C", "D", "E", "F", "G", "H", "I", "J", "K", "L", "M",
      "N", "O", "P", "Q", "R", "S", "T", "U", "V", "W", "X", "Y", "Z",
      "a", "b", "c", "d", "e", "f", "g", "h", "i", "j", "k", "l", "m",
      "n", "o", "p", "q", "r", "s", "t", "u", "v", "w", "x", "y", "z",
      "0", "1", "2", "3", "4", "5", "6", "7", "8", "9", "-", "_">>

\* the value of a character for from_base64, which reads both alphabets
Base64Value ==
    [c \in {URLSAFE_CHARS[i] : i \in 1..64} \cup {"+", "/"} |->
        IF c = "+" THEN 62 ELSE IF c = "/" THEN 63
        ELSE (CHOOSE i \in 1..64 : URLSAFE_CHARS[i] = c) - 1]

\* byte i of a sequence, 0 past its end
ByteOrZero(bytes, i) == IF i <= Len(bytes) THEN bytes[i] ELSE 0

\* bytes.to_base64(URL_SAFE): every three bytes give four characters, one or
\* two bytes at the end give two or three; no padding and no line breaks
to_base64(bytes) ==
    [k \in 1..(4 * (Len(bytes) \div 3)
               + (IF Len(bytes) % 3 = 0 THEN 0 ELSE (Len(bytes) % 3) + 1)) |->
        LET chunk == (k - 1) \div 4
            n     == ByteOrZero(bytes, 3 * chunk + 1) * 2^16
                     + ByteOrZero(bytes, 3 * chunk + 2) * 2^8
                     + ByteOrZero(bytes, 3 * chunk + 3)
        IN  URLSAFE_CHARS[((n \div 64^(3 - ((k - 1) % 4))) % 64) + 1]]

\* data.from_base64() on a string without padding or line breaks (to_base64
\* with URL_SAFE writes neither): every four characters give three bytes,
\* two or three characters at the end give one or two bytes, one is an error
from_base64(data) ==
    IF \E k \in 1..Len(data) : data[k] \notin DOMAIN Base64Value
    THEN Err("InvalidBase64Byte")
    ELSE IF Len(data) % 4 = 1 THEN Err("InvalidBase64Length")
    ELSE Ok([i \in 1..(3 * (Len(data) \div 4)
                       + (IF Len(data) % 4 = 0 THEN 0 ELSE (Len(data) % 4) - 1)) |->
                LET chunk == (i - 1) \div 3
                    v(t)  == IF 4 * chunk + t <= Len(data)
                             THEN Base64Value[data[4 * chunk + t]] ELSE 0
                    buf   == v(1) * 64^3 + v(2) * 64^2 + v(3) * 64 + v(4)
                IN  (buf \div 256^(2 - ((i - 1) % 3))) % 256])

\* Genome::to_base64
Genome_to_base64(g) == to_base64(Genome_to_bytes(g))

\* Genome::from_base64
Genome_from_base64(data) ==
    IF from_base64(data).ok THEN Genome_from_bytes(from_base64(data).value)
    ELSE Err("Couldn't decode genome string")

\* the genes of a chromosome have up to MaxGeneSize bytes, and a chromosome
\* has up to MaxNumGenes genes
MaxGeneSize == 14
MaxNumGenes == 14

\* byte i of gene g of a chromosome filled from a seed
GeneByte(seed, g, i) == (seed + 17 * g + 3 * i) % 256
GeneSeeds == {0, 200}

\* Chromosome::rand(num_genes, gene_size) with the bytes of a seed
Chromosome_rand(num_genes, gene_size, seed) ==
    [g \in 1..num_genes |-> [i \in 1..gene_size |-> GeneByte(seed, g, i)]]

\* the shapes <<num_genes, gene_size>> of the second chromosome of a genome
\* whose first takes every shape
FewShapes == {<<0, 0>>, <<1, 1>>, <<3, 0>>, <<2, 5>>, <<MaxNumGenes, MaxGeneSize>>}

\* a genome of two chromosomes, each with genes of one size
GenomeInit ==
    \E num_genes \in 0..MaxNumGenes, gene_size \in 0..MaxGeneSize,
       few \in FewShapes, seed \in GeneSeeds, pattern_first \in BOOLEAN :
        \E c \in {Chromosome_rand(num_genes, gene_size, seed)},
           d \in {Chromosome_rand(few[1], few[2], 255 - seed)} :
            geno = [pc |-> "genome",
                    genome |-> IF pattern_first THEN [pattern |-> c, color |-> d]
                               ELSE [pattern |-> d, color |-> c],
                    string |-> <<>>, result |-> Idle]

\* g.to_base64()
ToBase64 ==
    /\ geno.pc = "genome"
    /\ IF ~Chromosome_asserted(geno.genome.pattern)
          \/ ~Chromosome_asserted(geno.genome.color)
       THEN geno' = [geno EXCEPT !.pc = "panic"]
       ELSE \E data \in {Genome_to_base64(geno.genome)} :
               geno' = [geno EXCEPT !.pc = "string", !.string = data]
    /\ UNCHANGED <<conv, lrp, tile, dith, grad, pal, pin, gene, cm, ar, nidx, pix>>

\* Genome::from_base64(&s)
FromBase64 ==
    /\ geno.pc = "string"
    /\ \E result \in {Genome_from_base64(geno.string)} :
          geno' = [geno EXCEPT !.pc = "done", !.result = result]
    /\ UNCHANGED <<conv, lrp, tile, dith, grad, pal, pin, gene, cm, ar, nidx, pix>>

InitGenome ==
    /\ GenomeInit
    /\ conv = Idle /\ lrp = Idle /\ tile = Idle /\ dith = Idle /\ grad = Idle
    /\ pal = Idle /\ pin = Idle /\ gene = Idle /\ cm = Idle /\ ar = Idle
    /\ nidx = Idle /\ pix = Idle

NextGenome == ToBase64 \/ FromBase64

SpecGenome == InitGenome /\ [][NextGenome]_vars

\* the number of bytes a chromosome takes: its header and its genes
ChromosomeBytes(c) == 1 + (IF Len(c) = 0 THEN 0 ELSE Len(c[1]) * Len(c))

\* C22: for every genome whose chromosomes have 0 to 14 genes each, the genes
\* of a chromosome all of one size of 0 to 14 bytes, from_base64(g.to_base64())
\* is Ok of a genome equal to g; the decoding takes, for each chromosome, the
\* header byte and gene_size * num_genes bytes, and leaves no byte over.
C22_Base64RoundTrip ==
    /\ geno.pc # "panic"
    /\ geno.pc = "done" =>
          /\ geno.result.ok
          /\ geno.result.value = geno.genome
          /\ geno.result.consumed = <<ChromosomeBytes(geno.genome.pattern),
                                      ChromosomeBytes(geno.genome.color)>>
          /\ geno.result.left = 0

\* a genome of 14 genes of 14 bytes in the pattern and 2 genes of 5 bytes in
\* the color has come back from its string of 278 characters
C22_Witness ==
    /\ geno.pc = "done"
    /\ geno.result.ok
    /\ Len(geno.genome.pattern) = 14
    /\ Len(geno.genome.pattern[1]) = 14
    /\ Len(geno.result.value.color) = 2
    /\ Len(geno.result.value.color[2]) = 5
    /\ Len(geno.string) = 278

(***************************************************************************)
(* Transparent pixels of a GIF frame (file.rs).  A frame is a sequence of  *)
(* palette indexes; index i of the source is element i + 1.  A run is a    *)
(* Range: a record of start and end, the end excluded.                     *)
(***************************************************************************)
\* the fold of optimize_pixels over the indexes from i on: the runs of
\* positions where the two frames agree, each run as long as it can be
RECURSIVE fold_runs(_, _, _, _)
fold_runs(previous_pixels, pixels, i, runs) ==
    IF i >= Min(Len(previous_pixels), Len(pixels)) THEN runs
    ELSE IF previous_pixels[i + 1] # pixels[i + 1]
    THEN fold_runs(previous_pixels, pixels, i + 1, runs)
    ELSE IF runs = <<>>
    THEN fold_runs(previous_pixels, pixels, i + 1, <<[start |-> i, end |-> i + 1]>>)
    ELSE IF runs[Len(runs)].end = i
    THEN fold_runs(previous_pixels, pixels, i + 1,
                   [runs EXCEPT ![Len(runs)].end = i + 1])
    ELSE fold_runs(previous_pixels, pixels, i + 1,
                   Append(runs, [start |-> i, end |-> i + 1]))

\* the cost of a run: the pixel before it and the pixel after it, if equal
\* to the pixel of the run next to them
run_cost(pixels, run) ==
    (IF run.start > 0 /\ pixels[run.start] = pixels[run.start + 1] THEN 1 ELSE 0)
    + (IF run.end < Len(pixels) /\ pixels[run.end] = pixels[run.end + 1] THEN 1 ELSE 0)

\* the mutant of run_benefit: take(1)
run_benefit_take_1(pixels, run) ==
    Min(1, Cardinality({j \in (run.start + 1)..(run.end - 1) :
                            pixels[j] # pixels[j + 1]}))

\* pixels[run].windows(2).filter(|w| w[0] != w[1]).take(2).count()
run_benefit(pixels, run) ==
    Min(2, Cardinality({j \in (run.start + 1)..(run.end - 1) :
                            pixels[j] # pixels[j + 1]}))

\* the runs that pass the filter
good_runs(pixels, runs) ==
    SelectSeq(runs, LAMBDA run : run_cost(pixels, run) <= run_benefit(pixels, run))

\* optimize_pixels: the pixels of the good runs set to 0
optimize_pixels(previous_pixels, pixels) ==
    LET good == good_runs(pixels, fold_runs(previous_pixels, pixels, 0, <<>>))
    IN  [k \in 1..Len(pixels) |->
            IF \E r \in 1..Len(good) : good[r].start <= k - 1 /\ k - 1 < good[r].end
            THEN 0 ELSE pixels[k]]

\* pixels of a frame at most, and the palette indexes of the frames
MaxFramePixels == 6
FrameIndexes == {0, 1}

\* two consecutive indexed frames of one size, as output_gif converts them
PixelsInit ==
    \E n \in 1..MaxFramePixels :
        \E first \in [1..n -> FrameIndexes], second \in [1..n -> FrameIndexes] :
            pix = [pc |-> "indexed", frames |-> <<first, second>>,
                   previous |-> <<>>, original |-> <<>>]

\* output_gif: the transparent entry goes to the front of the palette and
\* every index moves up by one
AddTransparency ==
    /\ pix.pc = "indexed"
    /\ pix' = [pix EXCEPT !.pc = "transparent",
                          !.frames = [f \in 1..2 |->
                                         [k \in 1..Len(pix.frames[f]) |->
                                             pix.frames[f][k] + 1]]]
    /\ UNCHANGED <<conv, lrp, tile, dith, grad, pal, pin, gene, cm, ar, nidx, geno>>

\* output_gif: optimize_pixels on the second frame against the first
OptimizePixels ==
    /\ pix.pc = "transparent"
    /\ \E optimized \in {optimize_pixels(pix.frames[1], pix.frames[2])} :
          pix' = [pix EXCEPT !.pc = "optimized",
                             !.previous = pix.frames[1],
                             !.original = pix.frames[2],
                             !.frames = [@ EXCEPT ![2] = optimized]]
    /\ UNCHANGED <<conv, lrp, tile, dith, grad, pal, pin, gene, cm, ar, nidx, geno>>

InitPixels ==
    /\ PixelsInit
    /\ conv = Idle /\ lrp = Idle /\ tile = Idle /\ dith = Idle /\ grad = Idle
    /\ pal = Idle /\ pin = Idle /\ gene = Idle /\ cm = Idle /\ ar = Idle
    /\ nidx = Idle /\ geno = Idle

NextPixels == AddTransparency \/ OptimizePixels

SpecPixels == InitPixels /\ [][NextPixels]_vars

\* position a..b (elements of the frame) is a maximal run of pixels that the
\* frame shares with the previous frame
MaximalRun(previous_pixels, pixels, a, b) ==
    /\ a <= b
    /\ \A k \in a..b : previous_pixels[k] = pixels[k]
    /\ a > 1 => previous_pixels[a - 1] # pixels[a - 1]
    /\ b < Len(pixels) => previous_pixels[b + 1] # pixels[b + 1]

\* the run-length cost of the run a..b: the merges broken at its borders
BordersBroken(pixels, a, b) ==
    Cardinality({k \in {a - 1, b} :
                    k >= 1 /\ k < Len(pixels) /\ pixels[k] = pixels[k + 1]})

\* the benefit of the run a..b: the changes of value inside it, 2 at most
ChangesInside(pixels, a, b) ==
    Min(2, Cardinality({k \in a..(b - 1) : pixels[k] # pixels[k + 1]}))

\* the frame shown when `pixels` is drawn over `previous_pixels` with index 0
\* transparent
Overlaid(previous_pixels, pixels) ==
    [k \in 1..Len(pixels) |-> IF pixels[k] = 0 THEN previous_pixels[k] ELSE pixels[k]]

\* C23: optimize_pixels changes a pixel only by setting it to 0, and only
\* where the frame had the pixel of the previous frame; a pixel that differs
\* from the previous frame keeps its value, so the optimized frame drawn over
\* the previous frame is the frame as it was.  A maximal run of unchanged
\* pixels is made transparent exactly when its cost (the merges broken at its
\* two borders, 0 to 2) is at most its benefit (the value changes inside the
\* run, 2 at most).
C23_TransparentRuns ==
    pix.pc = "optimized" =>
        /\ Len(pix.frames[2]) = Len(pix.original)
        /\ \A k \in 1..Len(pix.original) :
               \/ pix.frames[2][k] = pix.original[k]
               \/ pix.frames[2][k] = 0 /\ pix.previous[k] = pix.original[k]
        /\ Overlaid(pix.previous, pix.frames[2]) = pix.original
        /\ \A a \in 1..Len(pix.original), b \in 1..Len(pix.original) :
               MaximalRun(pix.previous, pix.original, a, b) =>
                   \A k \in a..b :
                       (pix.frames[2][k] = 0)
                           <=> (BordersBroken(pix.original, a, b)
                                    <= ChangesInside(pix.original, a, b))

\* a run with one border broken and one change inside has been made
\* transparent, and a run of one value with one border broken has been kept
C23_Witness ==
    /\ pix.pc = "optimized"
    /\ pix.previous = <<1, 2, 1, 2, 1, 1>>
    /\ pix.original = <<1, 2, 2, 1, 1, 1>>
    /\ pix.frames[2] = <<0, 0, 2, 1, 1, 1>>

====
